---- MODULE Spec2Model ----
(***************************************************************************)
(* The link calibration engine of CaltechAdc                               *)
(* (src/ads5296_r2_tests/software/caltech_adc.py): the register codec, the *)
(* pattern controller, snapshot capture, the error scorers, the delay      *)
(* sweep with its margin selector, the bitslip search, the lane bonding    *)
(* verifier and the calibrate() orchestrator, together with the part of    *)
(* the fabric and of the ADC chips that these operations drive.  Next to   *)
(* it the margin selector of the bench script                              *)
(* (src/ads5296_snap2_tests/adc_test.py) and the connection handling of    *)
(* the F-engine controller LwaF (src/control_sw/src/lwa_f.py).             *)
(*                                                                         *)
(* Python values are kept with their dynamic type where the code tests it: *)
(* an argument is a record [t |-> "none" | "bool" | "int" | "list", v].    *)
(* Arrays and dicts are functions over the index sets of the code (chips   *)
(* 0..3, lanes 0..7, rows from 0).  Division is Python 2 integer division. *)
(***************************************************************************)
EXTENDS Integers, Sequences, FiniteSets, TLC

VARIABLES
    dev,     \* the CaltechAdc object, the fabric registers it drives, the chips
    env,     \* the link: lock word, data eyes, faulty lanes, counter phases
    pc,      \* position of calibrate()
    adc,     \* index into adcList of the chip loop in progress
    u,       \* iteration of the bitslip search of that chip
    sw,      \* the delay sweep of that chip: its tap loop and the scores so far
    ret,     \* what calibrate() returned
    hist,    \* what the run did so far: stages started, taps decided
    fn, arg, out,  \* a function applied on its own: name, input, result
    lwaf     \* the LwaF object, its boards and its connection threads

vars == <<dev, env, pc, adc, u, sw, ret, hist, fn, arg, out, lwaf>>

\* ------------------------------------------------------------ bounds

\* rows of one capture (the BRAM holds 1024 samples, 128 rows of 8 lanes)
NumRows == 4
\* longest per-tap error vector handed to decideDelay on its own
MaxLen == 5
\* largest error count of one entry of such a vector
MaxErr == 2
\* samples per lane of a ramp handed to the scorer on its own
RampLen == 6
\* width of the small words on which _set and _get are tried with every
\* contiguous mask
FieldBits == 4

\* ------------------------------------------------- program constants

NumTaps == 16
TapRange == 32
NumLanes == 8
RESOLUTION == 8

adcList == <<0, 1, 2, 3>>
Chips == {adcList[i] : i \in 1..Len(adcList)}
snapWidthList == (0 :> 10) @@ (1 :> 8) @@ (2 :> 10) @@ (3 :> 8)
laneList == [i \in 1..NumLanes |-> i - 1]
Lanes == {laneList[i] : i \in 1..Len(laneList)}
Rows == 0..(NumRows - 1)

\* Wishbone addresses and masks for write
A_WB_W_3WIRE == 0
A_WB_W_CTRL == 1
A_WB_W_DELAY_STROBE_L == 2
A_WB_W_DELAY_STROBE_H == 3

M_WB_W_DEMUX_WRITE == 1 * (2 ^ 26)
M_WB_W_DEMUX_MODE == 3 * (2 ^ 24)
M_WB_W_RESET == 1 * (2 ^ 20)
M_WB_W_SNAP_REQ == 1 * (2 ^ 16)
M_WB_W_DELAY_TAP == 31 * (2 ^ 0)
M_WB_W_ISERDES_BITSLIP_CHIP_SEL == 255 * (2 ^ 8)
M_WB_W_ISERDES_BITSLIP_LANE_SEL == 7 * (2 ^ 5)

\* read mask of the lock field in register 0
M_ADC16_LOCKED == 3 * (2 ^ 24)

\* ----------------------------------------------------- Python values

None == [t |-> "none", v |-> 0]
PyInt(n) == [t |-> "int", v |-> n]
PyBool(b) == [t |-> "bool", v |-> IF b THEN 1 ELSE 0]
PyList(s) == [t |-> "list", v |-> s]

IsNone(x) == x.t = "none"
IsList(x) == x.t = "list"
\* isinstance(x, int): bool is a subclass of int
IsInt(x) == x.t \in {"int", "bool"}
\* x == True
EqTrue(x) == IsInt(x) /\ x.v = 1
\* `not x` for an int, a bool or None
Falsy(x) == IsNone(x) \/ (IsInt(x) /\ x.v = 0)

SeqSet(s) == {s[i] : i \in 1..Len(s)}

\* ------------------------------------------------------ bit operations

\* bit positions of a register word
WordBits == 0..30

Bit(word, b) == (word \div (2 ^ b)) % 2

\* np.bitwise_or.reduce([0b1 << s for s in S])
RECURSIVE SumPow2(_)
SumPow2(S) ==
    IF S = {} THEN 0
    ELSE LET x == CHOOSE x \in S : TRUE IN 2 ^ x + SumPow2(S \ {x})

BitAnd(a, b) == SumPow2({i \in WordBits : Bit(a, i) = 1 /\ Bit(b, i) = 1})

BitOr(a, b) == a + b - BitAnd(a, b)

\* mask & -mask: the lowest set bit of a nonzero mask
LowBit(mask) ==
    2 ^ (CHOOSE i \in WordBits :
            Bit(mask, i) = 1 /\ \A j \in 0..(i - 1) : Bit(mask, j) = 0)

_get(data, mask) == BitAnd(data, mask) \div LowBit(mask)

\* a _set that ors the new field in without clearing the old one
setNoClear(d1, d2, mask) ==
    IF mask # 0
    THEN BitOr(d1, d2 * LowBit(mask))
    ELSE BitOr(d1, d2)

_set(d1, d2, mask) ==
    IF mask # 0
    THEN BitOr(d1 - BitAnd(d1, mask), d2 * LowBit(mask))
    ELSE BitOr(d1, d2)

\* ------------------------------------------------- pattern conversion

\* struct.pack of an unsigned, struct.unpack as signed, both `width` bits wide
PackUnpack(x, width) == IF x >= 2 ^ (width - 1) THEN x - 2 ^ width ELSE x

\* a conversion that reads the pattern as two's complement without
\* inverting its MSB
signedNoFlip(data, res) == PackUnpack(data % (2 ^ res), res)

_signed(data, res) ==
    LET width == IF res <= 8 THEN 8 ELSE IF res <= 16 THEN 16 ELSE 32
        dat == data % (2 ^ res)
        msb == IF dat >= 2 ^ (res - 1) THEN 2 ^ (res - 1) ELSE 0
    IN  IF msb # 0 THEN dat - msb
        ELSE PackUnpack(dat + (2 ^ width - 2 ^ (res - 1)), width)

\* the dual test pattern of __init__, alignLineClock and alignFrameClock:
\* pats = [0b1010101010, 0b0101010101, 0b0000000000, 0b1111111111]
dualP1(resolution) ==
    LET ofst == resolution \div 2
    IN  (682 % (2 ^ ofst)) * (2 ^ ofst) + (1023 % (2 ^ ofst))

dualP2(resolution) ==
    LET ofst == resolution \div 2
    IN  (341 % (2 ^ ofst)) * (2 ^ ofst) + (0 % (2 ^ ofst))

\* self.p1, self.p2: built from the 8 bit patterns with self.RESOLUTION
self_p1 == ((170 % (2 ^ (RESOLUTION \div 2))) * (2 ^ (RESOLUTION \div 2)))
            + (255 % (2 ^ (RESOLUTION \div 2)))
self_p2 == ((85 % (2 ^ (RESOLUTION \div 2))) * (2 ^ (RESOLUTION \div 2)))
            + (0 % (2 ^ (RESOLUTION \div 2)))

\* ------------------------------------------------------ margin selector

\* the forward pass of decideDelay: dist[i] after the first loop
RECURSIVE fwdDist(_, _)
fwdDist(data, i) ==
    IF data[i] # 0 THEN 0
    ELSE IF i = 1 THEN 1
    ELSE fwdDist(data, i - 1) + 1

\* curDist of the second (reversed) loop at index i
RECURSIVE bwdDist(_, _)
bwdDist(data, i) ==
    IF data[i] # 0 THEN 0
    ELSE IF i = Len(data) THEN 1
    ELSE bwdDist(data, i + 1) + 1

\* an argmax that takes the last of the largest entries
argmaxLast(dist) ==
    CHOOSE i \in 0..(Len(dist) - 1) :
        /\ \A j \in 0..(Len(dist) - 1) : dist[j + 1] <= dist[i + 1]
        /\ \A j \in (i + 1)..(Len(dist) - 1) : dist[j + 1] < dist[i + 1]

\* np.argmax: the first index of the largest entry (0-based)
argmax(dist) ==
    CHOOSE i \in 0..(Len(dist) - 1) :
        /\ \A j \in 0..(Len(dist) - 1) : dist[j + 1] <= dist[i + 1]
        /\ \A j \in 0..(i - 1) : dist[j + 1] < dist[i + 1]

\* decideDelay on a one dimensional vector (a sequence indexed by tap + 1):
\* False when every entry is nonzero, else the chosen index
decideDelay(data) ==
    IF \A i \in 1..Len(data) : data[i] # 0
    THEN PyBool(FALSE)
    ELSE LET dist == [i \in 1..Len(data) |->
                        IF fwdDist(data, i) > bwdDist(data, i)
                        THEN bwdDist(data, i) ELSE fwdDist(data, i)]
         IN  PyInt(argmax(dist))

\* get_best_delays of adc_test.py for the error vector of one chip and lane
\* (a sequence indexed by step + 1)
TAP_STEP_SIZE == 4

\* `for j in range(s, 0, -1)`: the zeros from step j down to step 1
RECURSIVE count_before(_, _)
count_before(errs, j) ==
    IF j <= 0 THEN 0
    ELSE IF errs[j + 1] # 0 THEN 0
    ELSE count_before(errs, j - 1) + 1

\* `for j in range(s, nsteps, 1)`: the zeros from step j on
RECURSIVE count_after(_, _)
count_after(errs, j) ==
    IF j >= Len(errs) THEN 0
    ELSE IF errs[j + 1] # 0 THEN 0
    ELSE count_after(errs, j + 1) + 1

get_best_delays(errs, step_size) ==
    LET slack == [i \in 1..Len(errs) |->
                    IF count_before(errs, i - 1) < count_after(errs, i - 1)
                    THEN count_before(errs, i - 1) ELSE count_after(errs, i - 1)]
    IN  argmax(slack) * step_size

\* -------------------------------------------------------- error scorer

RECURSIVE SortedSeq(_)
SortedSeq(S) ==
    IF S = {} THEN <<>>
    ELSE LET m == CHOOSE x \in S : \A y \in S : x <= y
         IN  <<m>> \o SortedSeq(S \ {m})

\* np.unique(col, return_counts=True)[1]: the counts of the distinct values
\* of col, in ascending order of the values
uniqueCounts(col) ==
    LET vals == SortedSeq({col[k] : k \in DOMAIN col})
    IN  [i \in 1..Len(vals) |-> Cardinality({k \in DOMAIN col : col[k] = vals[i]})]

RECURSIVE SumSeq(_)
SumSeq(s) == IF s = <<>> THEN 0 ELSE Head(s) + SumSeq(Tail(s))

\* np.sort(count)[::-1]: the counts in descending order
RECURSIVE sortDesc(_)
sortDesc(s) ==
    IF s = <<>> THEN <<>>
    ELSE LET i == CHOOSE i \in 1..Len(s) : \A j \in 1..Len(s) : s[j] <= s[i]
         IN  <<s[i]>> \o sortDesc([j \in 1..(Len(s) - 1) |-> IF j < i THEN s[j] ELSE s[j + 1]])

\* s[n:] of a sequence
DropFirst(s, n) == IF Len(s) <= n THEN <<>> ELSE SubSeq(s, n + 1, Len(s))
\* s[:n] of a sequence
TakeFirst(s, n) == IF Len(s) <= n THEN s ELSE SubSeq(s, 1, n)

\* the column of lane ls of a sample matrix
column(d, ls) == [k \in DOMAIN d |-> d[k][ls]]

\* np.std of a column is kept as rows^2 times the variance, an integer that
\* is zero exactly when the standard deviation is
stdScore(col) ==
    LET n == Cardinality(DOMAIN col)
        s == SumSeq([i \in 1..n |-> col[i - 1]])
        q == SumSeq([i \in 1..n |-> col[i - 1] * col[i - 1]])
    IN  n * q - s * s

mismatches(col, even, odd) ==
    Cardinality({k \in DOMAIN col : col[k] # (IF k % 2 = 0 THEN even ELSE odd)})

\* an err-mode score that tries one order of the two patterns only
errDualOneOrder(col, pattern1, pattern2) == mismatches(col, pattern1, pattern2)

\* the err-mode score of one lane against two patterns: the mismatches of
\* the better of the two orders
errDual(col, pattern1, pattern2) ==
    LET e1 == mismatches(col, pattern1, pattern2)
        e2 == mismatches(col, pattern2, pattern1)
    IN  IF e1 <= e2 THEN e1 ELSE e2

\* a ramp score that allows one step value only
rampScoreOneStep(col) ==
    LET n == Cardinality(DOMAIN col)
        diff == [k \in 0..(n - 2) |-> col[k + 1] - col[k]]
        counts == uniqueCounts(diff)
    IN  n - 1 - SumSeq(TakeFirst(counts, 1))

\* the score of one lane in ramp mode
rampScore(col) ==
    LET n == Cardinality(DOMAIN col)
        diff == [k \in 0..(n - 2) |-> col[k + 1] - col[k]]
        counts == uniqueCounts(diff)
    IN  n - 1 - SumSeq(TakeFirst(counts, 2))

\* the inner function _check of testPatterns; pattern1 and pattern2 are the
\* converted patterns in effect when it is called
_check(data, mode, pattern1, pattern2) ==
    [ls \in Lanes |->
        LET col == column(data, ls)
        IN  CASE mode = "std" /\ IsNone(pattern2) -> stdScore(col)
              [] mode = "std" /\ ~IsNone(pattern2) ->
                    SumSeq(DropFirst(sortDesc(uniqueCounts(col)), 2))
              [] mode = "err" /\ IsNone(pattern2) ->
                    Cardinality({k \in DOMAIN col : col[k] # pattern1.v})
              [] mode = "err" /\ ~IsNone(pattern2) -> errDual(col, pattern1.v, pattern2.v)
              [] mode = "ramp" -> rampScore(col)]

\* ------------------------------------------------- chips and the link

\* word k of the stream a chip puts on lane l under its stimulus mode
streamWord(d, c, l, k) ==
    LET w == snapWidthList[c]
        s == d.stim[c]
    IN  CASE s.mode = "pat_sync" -> (2 ^ (w \div 2) - 1) * 2 ^ (w \div 2)
          [] s.mode = "single_custom_pat" -> s.p1 % (2 ^ w)
          [] s.mode = "dual_custom_pat" ->
                IF k % 2 = 0 THEN s.p1 % (2 ^ w) ELSE s.p2 % (2 ^ w)
          [] s.mode = "en_ramp" -> (env.rampStart[c][l] + k) % (2 ^ w)
          [] OTHER -> (37 * k + 11 * l + 5) % (2 ^ w)

\* the word the deserialiser frames at row k: the stream seen through the
\* lane's bit rotation; a lane outside its data eye adds bit errors, a stuck
\* lane delivers one value, a lane with a dead bit delivers that bit as 0
laneWord(d, c, l, k) ==
    LET w == snapWidthList[c]
        r == d.rot[c][l] % w
        j == d.rot[c][l] \div w
        framed == (streamWord(d, c, l, k + j) \div (2 ^ r))
                  + (streamWord(d, c, l, k + j + 1) % (2 ^ r)) * 2 ^ (w - r)
    IN  IF env.stuck[c][l] >= 0 THEN env.stuck[c][l] % (2 ^ w)
        ELSE IF d.tap[c][l] \notin env.eye[c][l] THEN (framed + k) % (2 ^ w)
        ELSE IF env.deadBit[c][l] >= 0
        THEN framed - Bit(framed, env.deadBit[c][l]) * 2 ^ env.deadBit[c][l]
        ELSE framed

\* what the fabric stores: MSB inverted, left aligned in the BRAM word
bramWord(d, c, l, k) ==
    LET w == snapWidthList[c]
        shift == IF w > 8 THEN 16 - w ELSE 0
    IN  ((laneWord(d, c, l, k) + 2 ^ (w - 1)) % (2 ^ w)) * 2 ^ shift

capture(d, c) ==
    [i \in 0..(NumRows * NumLanes - 1) |-> bramWord(d, c, i % NumLanes, i \div NumLanes)]

\* f with f[c][l] = v for every <<c, l>> of S
RECURSIVE putAll(_, _, _)
putAll(f, S, v) ==
    IF S = {} THEN f
    ELSE LET p == CHOOSE p \in S : TRUE
         IN  putAll([f EXCEPT ![p[1]][p[2]] = v], S \ {p}, v)

\* one bitslip of every lane of S: the framing moves on by one bit; the buffer
\* of the chip is from now on older than its framing (stale)
RECURSIVE slipAll(_, _)
slipAll(d, S) ==
    IF S = {} THEN d
    ELSE LET p == CHOOSE p \in S : TRUE
         IN  slipAll([d EXCEPT !.rot[p[1]][p[2]] = (@ + 1) % (2 * snapWidthList[p[1]]),
                               !.nBitslip[p[1]][p[2]] = @ + 1,
                               !.stale = @ \cup {p[1]}],
                     S \ {p})

\* every armed block of S stores a capture and is disarmed; its buffer is as
\* new as the chip's settings
RECURSIVE captureAll(_, _, _)
captureAll(d, S, src) ==
    IF S = {} THEN d
    ELSE LET c == CHOOSE c \in S : TRUE
         IN  captureAll([d EXCEPT !.bram[c] = capture(src, c), !.armed[c] = FALSE,
                                  !.stale = @ \ {c}],
                        S \ {c}, src)

\* the lanes a strobe word newly selects: bit chip*4 + lane/2 of the A-lane
\* register for even lanes, of the B-lane register for odd lanes
strobed(val, old, parity) ==
    {p \in Chips \X Lanes :
        /\ p[2] % 2 = parity
        /\ Bit(val, p[1] * 4 + p[2] \div 2) = 1
        /\ Bit(old, p[1] * 4 + p[2] \div 2) = 0}

\* self.adc._write(val, addr): the register write and what the fabric does on it
adc_write(d, val, addr) ==
    CASE addr = A_WB_W_CTRL ->
            IF val = 0 THEN [d EXCEPT !.ctrl = 0]
            ELSE
            LET chipSel == _get(val, M_WB_W_ISERDES_BITSLIP_CHIP_SEL)
                lane == _get(val, M_WB_W_ISERDES_BITSLIP_LANE_SEL)
                slipped == {<<c, lane>> : c \in {c \in Chips : Bit(chipSel, c) = 1}}
                d1 == [d EXCEPT
                        !.ctrl = val,
                        !.demux = IF _get(val, M_WB_W_DEMUX_WRITE) = 1
                                  THEN _get(val, M_WB_W_DEMUX_MODE) ELSE @]
                d2 == slipAll(d1, slipped)
            IN  IF _get(val, M_WB_W_SNAP_REQ) = 1
                THEN captureAll(d2, {c \in Chips : d.armed[c]}, d)
                ELSE d2
      [] addr = A_WB_W_DELAY_STROBE_L ->
            IF val = 0 THEN [d EXCEPT !.strobeL = 0]
            ELSE [d EXCEPT
                    !.strobeL = val,
                    !.tap = putAll(@, strobed(val, d.strobeL, 0),
                                   _get(d.ctrl, M_WB_W_DELAY_TAP)),
                    !.stale = @ \cup {p[1] : p \in strobed(val, d.strobeL, 0)}]
      [] addr = A_WB_W_DELAY_STROBE_H ->
            IF val = 0 THEN [d EXCEPT !.strobeH = 0]
            ELSE [d EXCEPT
                    !.strobeH = val,
                    !.tap = putAll(@, strobed(val, d.strobeH, 1),
                                   _get(d.ctrl, M_WB_W_DELAY_TAP)),
                    !.stale = @ \cup {p[1] : p \in strobed(val, d.strobeH, 1)}]
      [] OTHER -> d

\* self.interface.write_int(ram, val) on a snapshot control register: bit 0
\* arms the block on its rising edge
write_int(d, ram, val) ==
    [d EXCEPT !.snapCtrl[ram] = val,
              !.armed[ram] = @ \/ (val % 2 = 1 /\ d.snapCtrl[ram] % 2 = 0)]

\* the stimulus command reaches the chips of S
RECURSIVE stimAll(_, _, _)
stimAll(d, S, st) ==
    IF S = {} THEN d
    ELSE LET c == CHOOSE c \in S : TRUE
         IN  stimAll([d EXCEPT !.stim[c] = st, !.stale = @ \cup {c}], S \ {c}, st)

\* self.adc.test_ads(cmd, ...): stimulus path A, understood by the even chips;
\* pathA keeps the chips that were selected when a command went out on it
adc_test_ads(d, cmd, a, b) ==
    stimAll([d EXCEPT !.nStim = @ + 1,
                      !.pathA = @ \cup {c \in Chips : Bit(d.cs, c) = 1}],
            {c \in Chips : Bit(d.cs, c) = 1 /\ c % 2 = 0},
            [mode |-> cmd, p1 |-> a, p2 |-> b])

\* self.adc.test(cmd, ...): stimulus path B, understood by the odd chips;
\* pathB keeps the chips that were selected when a command went out on it
adc_test(d, cmd, a, b) ==
    stimAll([d EXCEPT !.nStim = @ + 1,
                      !.pathB = @ \cup {c \in Chips : Bit(d.cs, c) = 1}],
            {c \in Chips : Bit(d.cs, c) = 1 /\ c % 2 = 1},
            [mode |-> cmd, p1 |-> a, p2 |-> b])

\* -------------------------------------------------- sequences of calls

\* one register access: adc._write(val, addr) or interface.write_int(ram, val)
W(val, addr) == [op |-> "_write", v |-> val, a |-> addr]
R(ram, val) == [op |-> "write_int", v |-> val, a |-> ram]

exec(d, c) == IF c.op = "_write" THEN adc_write(d, c.v, c.a) ELSE write_int(d, c.a, c.v)

\* the accesses cmds[lo..hi] one after the other (taken half by half)
RECURSIVE run(_, _, _, _)
run(d, cmds, lo, hi) ==
    IF lo > hi THEN d
    ELSE IF lo = hi THEN exec(d, cmds[lo])
    ELSE LET mid == (lo + hi) \div 2
             d1 == run(d, cmds, lo, mid)
         IN  IF d1.exc THEN d1 ELSE run(d1, cmds, mid + 1, hi)

\* --------------------------------------------------- CaltechAdc methods

raise(d) == [d EXCEPT !.exc = TRUE]

selectADC(d, chipSel) ==
    IF IsNone(chipSel) THEN [d EXCEPT !.cs = SumPow2(Chips)]
    ELSE IF IsList(chipSel) /\ SeqSet(chipSel.v) \subseteq Chips
    THEN [d EXCEPT !.cs = SumPow2(SeqSet(chipSel.v))]
    ELSE IF IsInt(chipSel) /\ chipSel.v \in Chips
    THEN [d EXCEPT !.cs = 2 ^ chipSel.v]
    ELSE raise(d)

modeMap == (4 :> 0) @@ (2 :> 1) @@ (1 :> 2)

setDemux(d, numChannel) ==
    IF numChannel \notin DOMAIN modeMap THEN raise(d)
    ELSE LET mode == modeMap[numChannel]
             val0 == _set(0, mode, M_WB_W_DEMUX_MODE)
             val == _set(val0, 1, M_WB_W_DEMUX_WRITE)
         IN  adc_write(d, val, A_WB_W_CTRL)

\* reset(): the reset command between two clears
reset(d) ==
    run(d, <<W(0, A_WB_W_CTRL), W(_set(0, 1, M_WB_W_RESET), A_WB_W_CTRL),
             W(0, A_WB_W_CTRL)>>, 1, 3)

\* the accesses of snapshot(): for every RAM the control register written
\* 0b100, 0b101, 0b100 and then the snapshot request between two clears
snapshot_cmds ==
    [i \in 1..(6 * Len(adcList)) |->
        LET ram == adcList[(i - 1) \div 6 + 1]
            k == (i - 1) % 6
        IN  CASE k = 0 -> R(ram, 4)
              [] k = 1 -> R(ram, 5)
              [] k = 2 -> R(ram, 4)
              [] k = 4 -> W(_set(0, 1, M_WB_W_SNAP_REQ), A_WB_W_CTRL)
              [] OTHER -> W(0, A_WB_W_CTRL)]

snapshot(d) == run(d, snapshot_cmds, 1, Len(snapshot_cmds))

\* the branch of readRAM that reads one RAM
readRAM(d, ram, signed, undo_bitflip) ==
    LET w == snapWidthList[ram]
        shift == IF w > 8 THEN 16 - w ELSE 0
        flip(v) == IF undo_bitflip THEN (v + 2 ^ (w - 1)) % (2 ^ w) ELSE v
        sgn(v) == IF signed /\ v > 2 ^ (w - 1) THEN v - 2 ^ w ELSE v
    IN  [k \in Rows |-> [l \in 0..(NumLanes - 1) |->
            sgn(flip(d.bram[ram][k * NumLanes + l] \div (2 ^ shift)))]]

\* a readRAM that reads the configured RAMs of any list it is given
readRAM_ramsOfAnyList(ram) ==
    IF IsNone(ram) THEN [exc |-> FALSE, rams |-> adcList]
    ELSE IF IsList(ram)
    THEN [exc |-> FALSE, rams |-> SelectSeq(ram.v, LAMBDA r : r \in SeqSet(adcList))]
    ELSE IF IsInt(ram) /\ ram.v \in SeqSet(adcList) THEN [exc |-> FALSE, rams |-> <<ram.v>>]
    ELSE [exc |-> TRUE, rams |-> <<>>]

\* the branches of readRAM: the RAMs whose transport is read, in order, or
\* the ValueError
readRAM_rams(ram) ==
    IF IsNone(ram) THEN [exc |-> FALSE, rams |-> adcList]
    ELSE IF IsList(ram) /\ \A i \in 1..Len(ram.v) : ram.v[i] \in SeqSet(adcList)
    THEN [exc |-> FALSE, rams |-> SelectSeq(ram.v, LAMBDA r : r \in SeqSet(adcList))]
    ELSE IF IsInt(ram) /\ ram.v \in SeqSet(adcList) THEN [exc |-> FALSE, rams |-> <<ram.v>>]
    ELSE [exc |-> TRUE, rams |-> <<>>]

\* chipSel / laneSel as bitslip, delay and testPatterns normalise them:
\* None is the whole list, a member of the list is the list of it
orAll(sel, all) ==
    IF IsNone(sel) THEN PyList(all)
    ELSE IF IsInt(sel) /\ sel.v \in SeqSet(all) THEN PyList(<<sel.v>>)
    ELSE sel

validList(sel, all) == IsList(sel) /\ SeqSet(sel.v) \subseteq SeqSet(all)

\* the accesses of bitslip(): clear, command, clear for every chip and lane
bitslip_cmds(chips, lanes) ==
    [i \in 1..(3 * Len(chips) * Len(lanes)) |->
        LET n == (i - 1) \div 3
            cs == chips[n \div Len(lanes) + 1]
            ls == lanes[(n % Len(lanes)) + 1]
            val0 == _set(0, 2 ^ cs, M_WB_W_ISERDES_BITSLIP_CHIP_SEL)
            val == _set(val0, ls, M_WB_W_ISERDES_BITSLIP_LANE_SEL)
        IN  IF (i - 1) % 3 = 1 THEN W(val, A_WB_W_CTRL) ELSE W(0, A_WB_W_CTRL)]

bitslip(d, chipSel0, laneSel0) ==
    LET chipSel == orAll(chipSel0, adcList)
        laneSel == orAll(laneSel0, laneList)
    IN  IF ~validList(chipSel, adcList) \/ ~validList(laneSel, laneList) THEN raise(d)
        ELSE LET cmds == bitslip_cmds(chipSel.v, laneSel.v)
             IN  run(d, cmds, 1, Len(cmds))

\* accesses that send the word of the A lanes to the register of the B
\* lanes and the other way round
delay_cmdsSwapped(valt, vala, valb) ==
    <<W(0, A_WB_W_CTRL), W(0, A_WB_W_DELAY_STROBE_L), W(0, A_WB_W_DELAY_STROBE_H),
      W(valt, A_WB_W_CTRL), W(valb, A_WB_W_DELAY_STROBE_L), W(vala, A_WB_W_DELAY_STROBE_H),
      W(0, A_WB_W_CTRL), W(0, A_WB_W_DELAY_STROBE_L), W(0, A_WB_W_DELAY_STROBE_H)>>

\* the nine accesses of delay(): everything cleared, the tap and the two
\* strobe words set, everything cleared
delay_cmds(valt, vala, valb) ==
    <<W(0, A_WB_W_CTRL), W(0, A_WB_W_DELAY_STROBE_L), W(0, A_WB_W_DELAY_STROBE_H),
      W(valt, A_WB_W_CTRL), W(vala, A_WB_W_DELAY_STROBE_L), W(valb, A_WB_W_DELAY_STROBE_H),
      W(0, A_WB_W_CTRL), W(0, A_WB_W_DELAY_STROBE_L), W(0, A_WB_W_DELAY_STROBE_H)>>

delay(d, tap, chipSel0, laneSel0) ==
    LET chipSel == orAll(chipSel0, adcList)
        laneSel == orAll(laneSel0, laneList)
    IN  IF ~validList(chipSel, adcList) \/ ~validList(laneSel, laneList) \/ ~IsInt(tap)
        THEN raise(d)
        ELSE LET C == SeqSet(chipSel.v)
                 L == SeqSet(laneSel.v)
                 vala == SumPow2({c * 4 + l \div 2 : c \in C, l \in {x \in L : x % 2 = 0}})
                 valb == SumPow2({c * 4 + l \div 2 : c \in C, l \in {x \in L : x % 2 = 1}})
                 valt == _set(0, tap.v, M_WB_W_DELAY_TAP)
                 d9 == run(d, delay_cmds(valt, vala, valb), 1, 9)
             IN  [d9 EXCEPT !.curDelay = putAll(@, C \X L, tap.v),
                            !.nDelay = @ + 1]

\* one call of a method of the object, as data: the loops of the code are
\* lists of these
Call(op, x, y, z) == [op |-> op, x |-> x, y |-> y, z |-> z]

call(d, c) ==
    CASE c.op = "selectADC" -> selectADC(d, c.x)
      [] c.op = "test_ads" -> adc_test_ads(d, c.x, c.y, c.z)
      [] c.op = "test" -> adc_test(d, c.x, c.y, c.z)
      [] c.op = "delay" -> delay(d, c.x, c.y, c.z)
      [] c.op = "bitslip" -> bitslip(d, c.x, c.y)
      [] c.op = "snapshot" -> snapshot(d)
      [] c.op = "reset" -> reset(d)
      [] c.op = "setDemux" -> setDemux(d, c.x.v)
      [] c.op = "raise" -> raise(d)
      [] OTHER -> d

\* the calls cs[lo..hi] one after the other; an exception ends the sequence
RECURSIVE callAll(_, _, _, _)
callAll(d, cs, lo, hi) ==
    IF lo > hi THEN d
    ELSE IF lo = hi THEN call(d, cs[lo])
    ELSE LET mid == (lo + hi) \div 2
             d1 == callAll(d, cs, lo, mid)
         IN  IF d1.exc THEN d1 ELSE callAll(d1, cs, mid + 1, hi)

\* ---------------------------------------------------------- testPatterns

\* range(n) as a list
range(n) == [i \in 1..n |-> i - 1]

\* the first lines of testPatterns: chipSel and taps as it normalises them;
\* ok is FALSE where it raises ValueError
\* an argument check that takes any list of taps
testPatterns_argsAnyTap(chipSel0, taps0, mode) ==
    LET chipSel == orAll(chipSel0, adcList)
        taps == IF EqTrue(taps0) THEN PyList(range(NumTaps))
                ELSE IF IsInt(taps0) /\ taps0.v \in Chips THEN PyList(<<taps0.v>>)
                ELSE taps0
    IN  [ok |-> /\ validList(chipSel, adcList)
                /\ IsList(taps) \/ IsNone(taps)
                /\ mode \in {"std", "err", "ramp"},
         chipSel |-> chipSel,
         taps |-> taps]

testPatterns_args(chipSel0, taps0, mode) ==
    LET chipSel == orAll(chipSel0, adcList)
        taps == IF EqTrue(taps0) THEN PyList(range(NumTaps))
                ELSE IF IsInt(taps0) /\ taps0.v \in Chips THEN PyList(<<taps0.v>>)
                ELSE taps0
    IN  [ok |-> /\ validList(chipSel, adcList)
                /\ IsList(taps) \/ IsNone(taps)
                /\ IsList(taps) => SeqSet(taps.v) \subseteq 0..(TapRange - 1)
                /\ mode \in {"std", "err", "ramp"},
         chipSel |-> chipSel,
         taps |-> taps]

\* the branch of testPatterns that mode, pattern1 and pattern2 select
testPatterns_kind(mode, pattern10, pattern20) ==
    IF mode = "ramp" THEN "ramp"
    ELSE IF IsNone(pattern10) /\ IsNone(pattern20) THEN "sync"
    ELSE IF IsInt(pattern10) /\ IsNone(pattern20) THEN "single"
    ELSE IF IsInt(pattern10) /\ IsInt(pattern20) THEN "dual"
    ELSE "invalid"

\* a loop that sends every chip its command on path A
stimCallsPathA(chips, cmd, a, b) ==
    [i \in 1..(2 * Len(chips)) |->
        LET chip == chips[(i + 1) \div 2]
        IN  IF i % 2 = 1 THEN Call("selectADC", PyInt(chip), None, None)
            ELSE Call("test_ads", cmd, a, b)]

\* the calls of one of the loops
\* `for adc in chipSel: selectADC(adc); test_ads(..) if adc%2 == 0 else test(..)`
stimCalls(chips, cmd, a, b) ==
    [i \in 1..(2 * Len(chips)) |->
        LET chip == chips[(i + 1) \div 2]
        IN  IF i % 2 = 1 THEN Call("selectADC", PyInt(chip), None, None)
            ELSE Call(IF chip % 2 = 0 THEN "test_ads" ELSE "test", cmd, a, b)]

\* the calls up to the capture: selectADC(chipSel), then the stimulus loop of
\* the branch taken
testPatterns_stimulus(chipSel, kind, pattern10, pattern20) ==
    <<Call("selectADC", chipSel, None, None)>> \o
    (CASE kind = "ramp" -> stimCalls(chipSel.v, "en_ramp", 0, 0)
       [] kind = "sync" -> stimCalls(chipSel.v, "pat_sync", 0, 0)
       [] kind = "single" -> stimCalls(chipSel.v, "single_custom_pat", pattern10.v, 0)
       [] kind = "dual" ->
            stimCalls(chipSel.v, "dual_custom_pat", pattern10.v, pattern20.v)
       [] OTHER -> <<Call("raise", None, None, None)>>)

\* pattern1 and pattern2 as the branch converts them; resolution is the one
\* the chip loop left behind, that of the last chip of chipSel
testPatterns_patterns(chips, kind, pattern10, pattern20) ==
    LET resolution == snapWidthList[chips[Len(chips)]]
    IN  [pattern1 |->
            CASE kind = "sync" ->
                    PyInt(_signed((2 ^ (resolution \div 2) - 1) * 2 ^ (resolution \div 2),
                                  resolution))
              [] kind \in {"single", "dual"} -> PyInt(_signed(pattern10.v, resolution))
              [] OTHER -> None,
         pattern2 |-> IF kind = "dual" THEN PyInt(_signed(pattern20.v, resolution))
                      ELSE None]

\* [_check(self.readRAM(cs)) for cs in chipSel] on the capture d holds;
\* staleReads keeps the chips whose buffer was read while stale
scored(d, chips, mode, p) ==
    [dev |-> [d EXCEPT !.staleReads =
                IF d.exc THEN @ ELSE @ \cup (SeqSet(chips) \cap d.stale)],
     row |-> [c \in SeqSet(chips) |->
                _check(readRAM(d, c, TRUE, FALSE), mode, p.pattern1, p.pattern2)]]

\* an iteration that takes the snapshot before it sets the tap
testPatterns_tapSnapshotFirst(d, chips, tap, mode, p) ==
    scored(callAll(d, <<Call("snapshot", None, None, None),
                        Call("delay", PyInt(tap), PyList(chips), None)>>, 1, 2),
           chips, mode, p)

\* one iteration of `for tap in taps`: delay, snapshot, score
testPatterns_tap(d, chips, tap, mode, p) ==
    scored(callAll(d, <<Call("delay", PyInt(tap), PyList(chips), None),
                        Call("snapshot", None, None, None)>>, 1, 2),
           chips, mode, p)

\* the rows one iteration adds to the results
rowsOf(r) == [dev |-> r.dev, rows |-> IF r.dev.exc THEN <<>> ELSE <<r.row>>]

\* the rows of two runs of iterations, one after the other
joined(left, right) == [dev |-> right.dev, rows |-> left.rows \o right.rows]

\* the iterations taps[lo..hi] of `for tap in taps` (taken half by half):
\* the device after them and one row of scores per tap
RECURSIVE sweep(_, _, _, _, _, _, _)
sweep(d, chips, taps, lo, hi, mode, p) ==
    IF lo > hi THEN [dev |-> d, rows |-> <<>>]
    ELSE IF lo = hi THEN rowsOf(testPatterns_tap(d, chips, taps[lo], mode, p))
    ELSE LET left == sweep(d, chips, taps, lo, (lo + hi) \div 2, mode, p)
         IN  IF left.dev.exc THEN left
             ELSE joined(left, sweep(left.dev, chips, taps, (lo + hi) \div 2 + 1, hi, mode, p))

\* results as the dicts testPatterns builds: results[chip][lane] without taps,
\* results[chip][tap][lane] with taps (a tap listed twice keeps its last row)
testPatterns_results(chips, taps, rows) ==
    IF IsNone(taps)
    THEN [c \in SeqSet(chips) |-> rows[1][c]]
    ELSE [c \in SeqSet(chips) |-> [t \in SeqSet(taps.v) |->
            LET i == CHOOSE i \in 1..Len(taps.v) :
                        /\ taps.v[i] = t
                        /\ \A j \in (i + 1)..Len(taps.v) : taps.v[j] # t
            IN  rows[i][c]]]

\* what testPatterns gives back when it raises
failed(d) == [dev |-> d, exc |-> TRUE, results |-> <<>>]

\* the last loop of testPatterns: the stimulus of every chip of chipSel off,
\* then the results
testPatterns_off(swept, chips, taps) ==
    IF swept.dev.exc THEN failed(swept.dev)
    ELSE [dev |-> callAll(swept.dev, stimCalls(chips, "off", 0, 0), 1, 2 * Len(chips)),
          exc |-> FALSE,
          results |-> testPatterns_results(chips, taps, swept.rows)]

\* a capture that sets the taps of the chips to 0 when it is given no taps
testPatterns_captureAtTapZero(d, chips, taps, mode, p) ==
    IF d.exc THEN failed(d)
    ELSE testPatterns_off(
            IF IsNone(taps)
            THEN rowsOf(scored(snapshot(delay(d, PyInt(0), PyList(chips), None)),
                               chips, mode, p))
            ELSE sweep(d, chips, taps.v, 1, Len(taps.v), mode, p),
            chips, taps)

\* the capture of testPatterns: one snapshot without taps, the tap loop with
\* taps; d is the device once the stimulus is on
testPatterns_capture(d, chips, taps, mode, p) ==
    IF d.exc THEN failed(d)
    ELSE testPatterns_off(
            IF IsNone(taps)
            THEN rowsOf(scored(snapshot(d), chips, mode, p))
            ELSE sweep(d, chips, taps.v, 1, Len(taps.v), mode, p),
            chips, taps)

\* testPatterns(chipSel, taps, mode, pattern1, pattern2); the caller of a
\* one-chip call gets results[chip]
testPatterns(d, chipSel0, taps0, mode, pattern10, pattern20) ==
    LET args == testPatterns_args(chipSel0, taps0, mode)
        kind == testPatterns_kind(mode, pattern10, pattern20)
        calls == testPatterns_stimulus(args.chipSel, kind, pattern10, pattern20)
    IN  IF ~args.ok THEN failed(raise(d))
        ELSE IF args.chipSel.v = <<>> /\ kind \notin {"ramp", "invalid"}
        THEN failed(raise(selectADC(d, args.chipSel)))
        ELSE testPatterns_capture(
                callAll(d, calls, 1, Len(calls)),
                args.chipSel.v,
                IF kind = "ramp" THEN None ELSE args.taps,
                mode,
                testPatterns_patterns(args.chipSel.v, kind, pattern10, pattern20))

\* ------------------------------------------------------ alignment stages

\* the per-tap scores of one lane, in tap order: np.array(errs.values())[:,lane]
laneVals(errs, lane) == [n \in 1..Cardinality(DOMAIN errs) |-> errs[n - 1][lane]]

\* the lane loop of alignLineClock (dual_pat): decide a tap per lane and
\* apply it, or only log "delay decision failed" when `not t`
delayCalls(a, errs) ==
    [i \in 1..Len(laneList) |->
        LET t == decideDelay(laneVals(errs, laneList[i]))
        IN  IF Falsy(t) THEN Call("pass", None, None, None)
            ELSE Call("delay", t, PyInt(a), PyInt(laneList[i]))]

applyDelays(r, a) ==
    IF r.exc THEN r.dev
    ELSE callAll(r.dev, delayCalls(a, r.results[a]), 1, Len(laneList))

\* the taps decideDelay returns for the lanes of a chip, from the sweep of that chip
decided(errs) == [lane \in Lanes |-> decideDelay(laneVals(errs, lane))]

\* the call testPatterns(adc, taps=True, mode='std', pattern1=p1, pattern2=p2)
\* of alignLineClock (dual_pat) for one chip, as the pieces of testPatterns
lineArgs(a) == testPatterns_args(PyInt(a), PyBool(TRUE), "std")
linePatterns(a) ==
    testPatterns_patterns(lineArgs(a).chipSel.v, "dual",
                          PyInt(dualP1(snapWidthList[a])), PyInt(dualP2(snapWidthList[a])))
lineStimulus(a) ==
    testPatterns_stimulus(lineArgs(a).chipSel, "dual",
                          PyInt(dualP1(snapWidthList[a])), PyInt(dualP2(snapWidthList[a])))

allZero(results) == \A c \in DOMAIN results : \A l \in DOMAIN results[c] : results[c][l] = 0

\* np.all(np.array([adc.values() for adc in errs.values()])==0)
allChipsZero(r) == [dev |-> r.dev, ok |-> ~r.exc /\ allZero(r.results)]

isLineClockAligned(d) ==
    allChipsZero(testPatterns(d, None, None, "std", PyInt(self_p1), PyInt(self_p2)))

\* a lane loop that slips every lane, with errors or without
slipCallsEveryLane(a, errs) ==
    [i \in 1..Len(laneList) |-> Call("bitslip", PyInt(a), PyInt(laneList[i]), None)]

\* the lane loop of one iteration of the bitslip search: a bitslip of every
\* lane that has errors
slipCalls(a, errs) ==
    [i \in 1..Len(laneList) |->
        IF errs[laneList[i]] # 0
        THEN Call("bitslip", PyInt(a), PyInt(laneList[i]), None)
        ELSE Call("pass", None, None, None)]

slipLanes(r, a) ==
    IF r.exc THEN [dev |-> r.dev, allDone |-> FALSE]
    ELSE [dev |-> callAll(r.dev, slipCalls(a, r.results[a]), 1, Len(laneList)),
          allDone |-> \A l \in Lanes : r.results[a][l] = 0]

\* one iteration of `for u in range(resolution*2)` of alignFrameClock
alignFrameClock_iter(d, a) ==
    LET p == <<dualP1(snapWidthList[a]), dualP2(snapWidthList[a])>>
    IN  slipLanes(testPatterns(d, PyInt(a), None, "err", PyInt(p[1]), PyInt(p[2])), a)
        @@ [pats |-> p]

\* all(val==0 for val in errs.values()) of a one-chip call
chipZero(r, a) == [dev |-> r.dev, ok |-> ~r.exc /\ \A l \in Lanes : r.results[a][l] = 0]

\* isFrameClockAligned: the return is inside the chip loop
isFrameClockAligned(d) ==
    LET p == <<self_p1, self_p2>>
    IN  chipZero(testPatterns(d, PyInt(adcList[1]), None, "err", PyInt(p[1]), PyInt(p[2])),
                 adcList[1])
        @@ [pats |-> p, chips |-> {adcList[1]}]

\* a ramp test that first sets every delay tap to 0
rampTestFromTapZero(d) ==
    allChipsZero(testPatterns(delay(d, PyInt(0), None, None), None, None, "ramp", None, None))

rampTest(d) == allChipsZero(testPatterns(d, None, None, "ramp", None, None))

\* a comparison that takes every chip's own lane 0 as the reference, whatever
\* bondAllAdcs says
bondedOwnLane(d, bondAllAdcs) ==
    IF d.exc THEN [dev |-> d, ok |-> FALSE]
    ELSE [dev |-> callAll([d EXCEPT !.staleReads = @ \cup d.stale],
                             <<Call("selectADC", PyList(<<0, 2>>), None, None),
                               Call("test_ads", "off", 0, 0),
                               Call("selectADC", PyList(<<1, 3>>), None, None),
                               Call("test", "off", 0, 0)>>, 1, 4),
          ok |-> \A c \in Chips : \A l \in Lanes :
                    readRAM(d, c, FALSE, FALSE)[0][l] = readRAM(d, c, FALSE, FALSE)[0][0]]

\* the comparison of isLaneBonded on the capture d holds, then the stimulus off
bonded(d, bondAllAdcs) ==
    IF d.exc THEN [dev |-> d, ok |-> FALSE]
    ELSE [dev |-> callAll([d EXCEPT !.staleReads = @ \cup d.stale],
                             <<Call("selectADC", PyList(<<0, 2>>), None, None),
                               Call("test_ads", "off", 0, 0),
                               Call("selectADC", PyList(<<1, 3>>), None, None),
                               Call("test", "off", 0, 0)>>, 1, 4),
          ok |-> \A c \in Chips : \A l \in Lanes :
                    readRAM(d, c, FALSE, FALSE)[0][l] =
                        (IF bondAllAdcs THEN readRAM(d, adcList[1], FALSE, FALSE)[0][0]
                         ELSE readRAM(d, c, FALSE, FALSE)[0][0])]

isLaneBonded(d, bondAllAdcs) ==
    bonded(callAll(d, <<Call("selectADC", PyList(<<0, 2>>), None, None),
                        Call("test_ads", "en_ramp", 0, 0),
                        Call("selectADC", PyList(<<1, 3>>), None, None),
                        Call("test", "en_ramp", 0, 0),
                        Call("snapshot", None, None, None)>>, 1, 5),
           bondAllAdcs)

\* --------------------------------------------------------- calibrate()

\* a lock word that reads as locked whatever the register holds
lockedWhateverRead == _get(M_ADC16_LOCKED, M_ADC16_LOCKED)

\* getWord('ADC16_LOCKED'): register 0 read back, the lock field extracted
getWord_ADC16_LOCKED == _get(env.lock * LowBit(M_ADC16_LOCKED), M_ADC16_LOCKED)

\* a calibrate() that goes on to the next stage whatever the stage returned
afterStageAnyway(stage, ok) ==
    CASE stage = "lock" -> "alignLineClock"
      [] stage = "line" -> "alignFrameClock"
      [] stage = "frame" -> "rampTest"
      [] stage = "ramp" -> "isLaneBonded"
      [] OTHER -> "done"

\* where calibrate() goes after a stage returned ok
afterStage(stage, ok) ==
    IF ~ok THEN "done"
    ELSE CASE stage = "lock" -> "alignLineClock"
           [] stage = "line" -> "alignFrameClock"
           [] stage = "frame" -> "rampTest"
           [] stage = "ramp" -> "isLaneBonded"
           [] OTHER -> "done"

\* the value calibrate() returns after a stage returned ok, "none" while it runs on
returned(stage, ok, d) ==
    IF ~ok THEN "False"
    ELSE IF stage # "bond" THEN "none"
    ELSE IF d.exc THEN "raise"
    ELSE "True"

\* a calibrate() that sets the demux mode of the caller on every return of
\* the lane bonding check
restoreDemuxAnyway(d, ok) == setDemux(d, d.numChannel)

\* the final setDemux(numChannel=self.numChannel) after the lane bonding check
restoreDemux(d, ok) == IF ok THEN setDemux(d, d.numChannel) ELSE d

\* no sweep in progress
sw0 == [i |-> 0, rows |-> <<>>]

started(h, stage) == [h EXCEPT !.stages = Append(@, stage)]
finished(h, ok) == [h EXCEPT !.results = Append(@, ok)]

calibrate_begin ==
    /\ pc = "idle"
    /\ \E d1 \in {setDemux(dev, 1)}, ok \in {getWord_ADC16_LOCKED # 0} :
        /\ dev' = d1
        /\ hist' = finished(started(hist, "lock"), ok)
        /\ pc' = afterStage("lock", ok)
        /\ ret' = returned("lock", ok, d1)
    /\ adc' = 1
    /\ u' = 0
    /\ UNCHANGED <<sw, env, fn, arg, out, lwaf>>

\* alignLineClock, one chip at a time: the sweep begins (the stimulus goes on)
calibrate_alignLineClock_begin ==
    /\ pc = "alignLineClock"
    /\ sw.i = 0
    /\ dev' = callAll(dev, lineStimulus(adcList[adc]), 1, Len(lineStimulus(adcList[adc])))
    /\ sw' = [i |-> 1, rows |-> <<>>]
    /\ hist' = IF adc = 1 THEN started(hist, "line") ELSE hist
    /\ UNCHANGED <<env, pc, adc, u, ret, fn, arg, out, lwaf>>

\* one tap of the sweep: delay, snapshot, score
calibrate_alignLineClock_tap ==
    /\ pc = "alignLineClock"
    /\ sw.i \in 1..Len(lineArgs(adcList[adc]).taps.v)
    /\ \E r \in {testPatterns_tap(dev, lineArgs(adcList[adc]).chipSel.v,
                                  lineArgs(adcList[adc]).taps.v[sw.i], "std",
                                  linePatterns(adcList[adc]))} :
        /\ dev' = r.dev
        /\ sw' = [i |-> sw.i + 1, rows |-> Append(sw.rows, r.row)]
    /\ UNCHANGED <<env, pc, adc, u, ret, hist, fn, arg, out, lwaf>>

\* the sweep ends (the stimulus goes off) and every lane gets its tap
calibrate_alignLineClock_decide ==
    /\ pc = "alignLineClock"
    /\ sw.i > Len(lineArgs(adcList[adc]).taps.v)
    /\ \E r \in {testPatterns_off([dev |-> dev, rows |-> sw.rows],
                                  lineArgs(adcList[adc]).chipSel.v,
                                  lineArgs(adcList[adc]).taps)} :
        /\ dev' = applyDelays(r, adcList[adc])
        /\ hist' = [hist EXCEPT !.t[adcList[adc]] = decided(r.results[adcList[adc]])]
    /\ sw' = sw0
    /\ IF adc < Len(adcList)
       THEN adc' = adc + 1 /\ pc' = pc
       ELSE adc' = 1 /\ pc' = "isLineClockAligned"
    /\ UNCHANGED <<env, u, ret, fn, arg, out, lwaf>>

calibrate_isLineClockAligned ==
    /\ pc = "isLineClockAligned"
    /\ \E r \in {isLineClockAligned(dev)} :
        /\ dev' = r.dev
        /\ hist' = [finished(hist, r.ok) EXCEPT !.lineDelay = r.dev.curDelay]
        /\ pc' = afterStage("line", r.ok)
        /\ ret' = returned("line", r.ok, r.dev)
    /\ adc' = 1
    /\ u' = 0
    /\ UNCHANGED <<sw, env, fn, arg, out, lwaf>>

\* one iteration of the bitslip search of alignFrameClock
calibrate_alignFrameClock ==
    /\ pc = "alignFrameClock"
    /\ \E r \in {alignFrameClock_iter(dev, adcList[adc])} :
       \E last \in {r.allDone \/ u + 1 >= snapWidthList[adcList[adc]] * 2} :
        /\ dev' = r.dev
        /\ hist' = [(IF adc = 1 /\ u = 0 THEN started(hist, "frame") ELSE hist)
                       EXCEPT !.tries[adcList[adc]] = @ + 1,
                              !.exhausted[adcList[adc]] = ~r.allDone /\ last,
                              !.searched[adcList[adc]] = r.pats]
        /\ IF ~last THEN u' = u + 1 /\ adc' = adc /\ pc' = pc
           ELSE IF adc < Len(adcList) THEN u' = 0 /\ adc' = adc + 1 /\ pc' = pc
           ELSE u' = 0 /\ adc' = 1 /\ pc' = "isFrameClockAligned"
    /\ UNCHANGED <<sw, env, ret, fn, arg, out, lwaf>>

calibrate_isFrameClockAligned ==
    /\ pc = "isFrameClockAligned"
    /\ \E r \in {isFrameClockAligned(dev)} :
        /\ dev' = r.dev
        /\ hist' = [finished(hist, r.ok) EXCEPT
                        !.checked = [c \in Chips |-> IF c \in r.chips THEN r.pats ELSE @[c]]]
        /\ pc' = afterStage("frame", r.ok)
        /\ ret' = returned("frame", r.ok, r.dev)
    /\ UNCHANGED <<sw, env, adc, u, fn, arg, out, lwaf>>

calibrate_rampTest ==
    /\ pc = "rampTest"
    /\ \E r \in {rampTest(dev)} :
        /\ dev' = r.dev
        /\ hist' = finished(started(hist, "ramp"), r.ok)
        /\ pc' = afterStage("ramp", r.ok)
        /\ ret' = returned("ramp", r.ok, r.dev)
    /\ UNCHANGED <<sw, env, adc, u, fn, arg, out, lwaf>>

calibrate_isLaneBonded ==
    /\ pc = "isLaneBonded"
    /\ \E r \in {isLaneBonded(dev, FALSE)} :
       \E d1 \in {restoreDemux(r.dev, r.ok)} :
        /\ dev' = d1
        /\ hist' = finished(started(hist, "bond"), r.ok)
        /\ pc' = afterStage("bond", r.ok)
        /\ ret' = returned("bond", r.ok, d1)
    /\ UNCHANGED <<sw, env, adc, u, fn, arg, out, lwaf>>

\* the link settles: the data eye of a lane that was closed or narrow opens
LinkSettles ==
    /\ pc \notin {"idle", "done"}
    /\ sw.i = 0
    /\ \E c \in Chips, l \in Lanes :
        /\ env.eye[c][l] # 0..(TapRange - 1)
        /\ env' = [env EXCEPT !.eye[c][l] = 0..(TapRange - 1)]
    /\ UNCHANGED <<sw, dev, pc, adc, u, ret, hist, fn, arg, out, lwaf>>

\* ------------------------------------------- LwaF: the boards it talks to

\* boards of the configuration
NumBoards == 3
\* do_for_all_f calls made on one set of connections
MaxCalls == 3

\* self.config['fengines'].keys()
hosts == [i \in 1..NumBoards |-> i]

\* LwaF(passive=True): no connection yet.  error_count[h] is the attribute
\* of the Snap2Fengine of host h, -1 while the object has none.  q, threads
\* and got are the queue, the running threads and the q.get() count of
\* establish_connections_multithread, at its position.  last, fails and
\* declared keep what the calls did: the last do_for_all_f, the failed
\* attempts in a row per board, the boards handed to declare_feng_dead.
lwaf0 ==
    [fengs |-> <<>>, dead_fengs |-> {},
     error_count |-> [h \in SeqSet(hosts) |-> -1],
     exc |-> FALSE,
     q |-> <<>>, threads |-> {}, got |-> 0, at |-> "init",
     board |-> [h \in SeqSet(hosts) |-> [connected |-> TRUE, programmed |-> TRUE]],
     calls |-> 0,
     last |-> None,
     fails |-> [h \in SeqSet(hosts) |-> 0],
     declared |-> {}]

\* ---------------------------------------------------------- initial states

\* init(samplingRate, numChannel) keeps its argument in self.numChannel
NumChannels == {2, 3}
LockWords == {0, 3}
\* the lane of a run that is not healthy, and what is wrong with it
FaultLanes == {<<0, 2>>, <<1, 5>>}
FaultKinds == {"tap0", "noeye", "stuck", "deadBit", "slip1", "halfTurn", "phase"}
Scenarios ==
    {[kind |-> "none", lane |-> <<0, 0>>]}
    \cup {[kind |-> k, lane |-> p] : k \in FaultKinds, p \in FaultLanes}
\* a stimulus mode left on a chip before the run
StimInits == {"off", "en_ramp"}

eyeOf(kind) ==
    CASE kind = "tap0" -> {0, 1}
      [] kind = "noeye" -> {}
      [] OTHER -> 0..(TapRange - 1)

rotOf(kind, c) ==
    CASE kind = "slip1" -> 1
      [] kind = "halfTurn" -> snapWidthList[c]
      [] OTHER -> 0

envOf(sc, lock) ==
    [lock |-> lock,
     eye |-> [c \in Chips |-> [l \in Lanes |->
                IF <<c, l>> = sc.lane THEN eyeOf(sc.kind) ELSE 0..(TapRange - 1)]],
     stuck |-> [c \in Chips |-> [l \in Lanes |->
                IF <<c, l>> = sc.lane /\ sc.kind = "stuck" THEN 85 ELSE -1]],
     deadBit |-> [c \in Chips |-> [l \in Lanes |->
                IF <<c, l>> = sc.lane /\ sc.kind = "deadBit" THEN 1 ELSE -1]],
     rampStart |-> [c \in Chips |-> [l \in Lanes |->
                IF <<c, l>> = sc.lane /\ sc.kind = "phase" THEN 6 ELSE 5]]]

devOf(sc, numChannel, stim0) ==
    [cs |-> 0,
     curDelay |-> [c \in Chips |-> [l \in Lanes |-> 0]],
     numChannel |-> numChannel,
     exc |-> FALSE,
     ctrl |-> 0, strobeL |-> 0, strobeH |-> 0,
     demux |-> 0,
     tap |-> [c \in Chips |-> [l \in Lanes |-> 0]],
     rot |-> [c \in Chips |-> [l \in Lanes |->
                IF <<c, l>> = sc.lane THEN rotOf(sc.kind, c) ELSE 0]],
     snapCtrl |-> [c \in Chips |-> 0],
     armed |-> [c \in Chips |-> FALSE],
     bram |-> [c \in Chips |-> [i \in 0..(NumRows * NumLanes - 1) |-> 0]],
     stim |-> [c \in Chips |-> [mode |-> stim0[c], p1 |-> 0, p2 |-> 0]],
     nBitslip |-> [c \in Chips |-> [l \in Lanes |-> 0]],
     nStim |-> 0, nDelay |-> 0,
     pathA |-> {}, pathB |-> {},
     stale |-> Chips, staleReads |-> {}]

hist0 ==
    [stages |-> <<>>, results |-> <<>>,
     t |-> [c \in Chips |-> [l \in Lanes |-> None]],
     lineDelay |-> [c \in Chips |-> [l \in Lanes |-> 0]],
     tries |-> [c \in Chips |-> 0],
     exhausted |-> [c \in Chips |-> FALSE],
     searched |-> [c \in Chips |-> <<>>],
     checked |-> [c \in Chips |-> <<>>]]

Init ==
    /\ \E sc \in Scenarios, lock \in LockWords, n \in NumChannels,
          stim0 \in [Chips -> StimInits] :
        /\ \A c \in Chips : stim0[c] # "off" => c = adcList[1]
        /\ env = envOf(sc, lock)
        /\ dev = devOf(sc, n, stim0)
    /\ pc = "idle"
    /\ adc = 1
    /\ u = 0
    /\ sw = sw0
    /\ ret = "none"
    /\ hist = hist0
    /\ fn = "calibrate"
    /\ arg = <<>>
    /\ out = None
    /\ lwaf = lwaf0

\* the arguments of a sweep a caller asks for: the chip, and the taps as
\* True, a list or a number
SweepArgs ==
    [chipSel : {PyInt(0), PyInt(1)},
     taps : {PyBool(TRUE), PyList(<<0, 31>>), PyList(<<31, 32>>), PyList(<<5, -1>>),
             PyInt(3), PyInt(5), None}]

\* self.testPatterns(chipSel, taps, mode='err', pattern1=self.p1,
\* pattern2=self.p2), on its own or once calibrate() has returned
testPatterns_call ==
    /\ \/ pc = "done" /\ fn = "calibrate"
       \/ pc = "fn" /\ fn = "testPatterns"
    /\ IsNone(out)
    /\ ~dev.exc
    /\ \E a \in SweepArgs :
       \E r \in {testPatterns(dev, a.chipSel, a.taps, "err", PyInt(self_p1), PyInt(self_p2))} :
        /\ dev' = r.dev
        /\ arg' = a
        /\ out' = [t |-> "ret", v |-> [exc |-> r.exc, results |-> r.results]]
    /\ fn' = "testPatterns"
    /\ UNCHANGED <<env, pc, adc, u, sw, ret, hist, lwaf>>

Next ==
    \/ calibrate_begin
    \/ calibrate_alignLineClock_begin
    \/ calibrate_alignLineClock_tap
    \/ calibrate_alignLineClock_decide
    \/ calibrate_isLineClockAligned
    \/ calibrate_alignFrameClock
    \/ calibrate_isFrameClockAligned
    \/ calibrate_rampTest
    \/ calibrate_isLaneBonded
    \/ LinkSettles
    \/ testPatterns_call

Spec == Init /\ [][Next]_vars

\* ------------------------------------------------ functions on their own

\* what a function applied on its own returned
Ret(v) == [t |-> "ret", v |-> v]

\* per-tap error vectors of one lane
ErrVectors == UNION {[1..n -> 0..MaxErr] : n \in 1..MaxLen}

\* converted test patterns, and how a lane of a capture relates to them
PatVals == {-48, 0, 47}
Phases == {"p1p2", "p2p1", "broken"}
FreeLanes == {0, 1, 2}

\* a capture of a dual pattern: every lane alternates in its own phase, a
\* broken lane has one sample off
dualData(p1, p2, phase) ==
    [k \in Rows |-> [l \in 0..(NumLanes - 1) |->
        CASE phase[l] = "p1p2" -> IF k % 2 = 0 THEN p1 ELSE p2
          [] phase[l] = "p2p1" -> IF k % 2 = 0 THEN p2 ELSE p1
          [] OTHER -> IF k = 1 THEN p1 + 1 ELSE IF k % 2 = 0 THEN p1 ELSE p2]]

\* RampLen samples of ramps of range 2^RESOLUTION: lane 0 a ramp with the
\* sample at pos off by `off`, lane 1 a constant, lane 2 stepping by 2, the
\* other lanes ramps 37 counts apart
rampData(start, pos, off) ==
    [k \in 0..(RampLen - 1) |-> [l \in 0..(NumLanes - 1) |->
        CASE l = 0 -> (start + k + (IF k = pos THEN off ELSE 0)) % (2 ^ RESOLUTION)
          [] l = 1 -> start
          [] l = 2 -> (start + 2 * k) % (2 ^ RESOLUTION)
          [] OTHER -> (start + 37 * l + k) % (2 ^ RESOLUTION)]]

\* contiguous masks as <<lowest bit, width>>, with the base words they are
\* tried on: every field of a FieldBits wide word with every such word, and
\* the fields of the control register with words of that register
Fields ==
    {f \in [lo : 0..(FieldBits - 1), len : 1..FieldBits, w : 0..(2 ^ FieldBits - 1)] :
        f.lo + f.len <= FieldBits}
    \cup {[lo |-> p[1], len |-> p[2], w |-> w] :
            p \in {<<26, 1>>, <<24, 2>>, <<20, 1>>, <<16, 1>>, <<0, 5>>, <<8, 8>>, <<5, 3>>},
            w \in {0, 2 ^ 16 - 1, M_WB_W_DEMUX_WRITE + M_WB_W_DEMUX_MODE + M_WB_W_SNAP_REQ}}

\* the lane whose ramp counter is one count ahead of its chip's, if any
OddLanes == {<<0, 0>>, <<0, 2>>, <<3, 7>>, <<9, 9>>}

healthy == [kind |-> "none", lane |-> <<0, 0>>]
allOff == [c \in Chips |-> "off"]

\* the link with the ramp counters of chip c starting at start, lane by lane
\* 37 apart
rampEnv(c, start) ==
    [envOf(healthy, 3) EXCEPT
        !.rampStart[c] = [l \in Lanes |-> (start + 37 * l) % (2 ^ snapWidthList[c])]]

\* chip c in ramp mode
rampDev(c) == [devOf(healthy, 2, allOff) EXCEPT !.stim[c].mode = "en_ramp"]

InitFn ==
    /\ pc = "fn"
    /\ adc = 1
    /\ u = 0
    /\ sw = sw0
    /\ ret = "none"
    /\ hist = hist0
    /\ out = None
    /\ lwaf = lwaf0
    /\ \/ /\ fn = "decideDelay"
          /\ arg \in ErrVectors
          /\ env = envOf(healthy, 3)
          /\ dev = devOf(healthy, 2, allOff)
       \/ /\ fn = "_signed"
          /\ \E res \in {snapWidthList[c] : c \in Chips} : \E data \in 0..(2 ^ res - 1) :
                arg = [data |-> data, res |-> res]
          /\ env = envOf(healthy, 3)
          /\ dev = devOf(healthy, 2, allOff)
       \/ /\ fn = "get_best_delays"
          /\ arg \in ErrVectors
          /\ env = envOf(healthy, 3)
          /\ dev = devOf(healthy, 2, allOff)
       \/ /\ fn = "_check"
          /\ \E p1 \in PatVals, p2 \in PatVals, ph \in [FreeLanes -> Phases] :
                arg = [mode |-> "err",
                       data |-> dualData(p1, p2, [l \in Lanes |->
                                            IF l \in FreeLanes THEN ph[l] ELSE "p1p2"]),
                       pattern1 |-> PyInt(p1), pattern2 |-> PyInt(p2)]
          /\ env = envOf(healthy, 3)
          /\ dev = devOf(healthy, 2, allOff)
       \/ /\ fn = "_check"
          /\ \E start \in {5} \cup ((2 ^ RESOLUTION - RampLen)..(2 ^ RESOLUTION - 1)),
                pos \in 0..(RampLen - 1), off \in {2, 7, 2 ^ RESOLUTION - 3} :
                arg = [mode |-> "ramp",
                       data |-> rampData(start, pos, off),
                       pos |-> pos,
                       pattern1 |-> None, pattern2 |-> None]
          /\ env = envOf(healthy, 3)
          /\ dev = devOf(healthy, 2, allOff)
       \/ /\ fn = "testPatterns"
          /\ arg = None
          /\ env = envOf(healthy, 3)
          /\ dev = devOf(healthy, 2, allOff)
       \/ /\ fn = "patterns"
          /\ \/ \E c \in {0, 1} : \E P \in 0..(2 ^ snapWidthList[c] - 1) :
                    arg = [chipSel |-> PyInt(c), taps |-> None, mode |-> "err",
                           pattern1 |-> PyInt(P), pattern2 |-> None]
             \/ /\ arg \in [chipSel : {None, PyInt(0), PyInt(1), PyList(<<0, 1>>),
                                       PyList(<<1, 0>>), PyList(<<1, 3>>)},
                            taps : {None}, mode : {"err"},
                            pattern1 : {None, PyInt(15), PyInt(self_p1)},
                            pattern2 : {None, PyInt(self_p2)}]
                /\ IsNone(arg.pattern1) => IsNone(arg.pattern2)
          /\ env = envOf(healthy, 3)
          /\ dev = devOf(healthy, 2, allOff)
       \/ /\ fn = "patterns"
          /\ arg \in [chipSel : {None, PyInt(1), PyList(<<0, 1>>)},
                      taps : {None, PyBool(TRUE), PyList(<<3, 7>>), PyList(<<40>>)}
                             \cup {PyInt(t) : t \in 0..(TapRange - 1)},
                      mode : {"std", "err", "ramp"},
                      pattern1 : {None, PyInt(self_p1)},
                      pattern2 : {None, PyInt(self_p2)}]
          /\ IsNone(arg.pattern1) /\ ~IsNone(arg.pattern2) => IsNone(arg.taps)
          /\ IsList(arg.taps) \/ EqTrue(arg.taps) => arg.mode = "ramp"
          /\ env = envOf(healthy, 3)
          /\ dev = delay(devOf(healthy, 2, allOff), PyInt(9), None, None)
       \/ /\ fn = "method"
          /\ arg \in {Call("reset", None, None, None),
                      Call("snapshot", None, None, None),
                      Call("bitslip", PyInt(0), PyInt(3), None),
                      Call("bitslip", None, None, None),
                      Call("delay", PyInt(5), PyInt(1), PyInt(2)),
                      Call("delay", PyInt(31), None, None),
                      Call("setDemux", PyInt(1), None, None),
                      Call("setDemux", PyInt(2), None, None),
                      Call("setDemux", PyInt(4), None, None),
                      Call("setDemux", PyInt(3), None, None)}
          /\ env = rampEnv(1, 5)
          /\ dev = rampDev(1)
       \/ /\ fn = "readRAM"
          /\ arg \in [ram : {None, PyInt(0), PyInt(1), PyInt(4), PyInt(-1), PyList(<<>>),
                             PyList(<<0, 1>>), PyList(<<3, 1>>), PyList(<<1, 4>>),
                             PyList(<<7>>)},
                      signed : BOOLEAN]
          /\ \E start \in {0, 5, 2 ^ snapWidthList[1] - 2} : env = rampEnv(1, start)
          /\ dev = [rampDev(1) EXCEPT !.bram[1] = capture(rampDev(1), 1)]
       \/ /\ fn = "delay"
          /\ arg \in [tap : {PyInt(5), PyInt(31), PyInt(32), PyInt(261), None},
                      chipSel : {PyInt(0), PyInt(1), PyInt(7), None},
                      laneSel : {PyInt(0), PyInt(7), PyInt(8), None}]
          /\ env = envOf(healthy, 3)
          /\ dev = devOf(healthy, 2, allOff)
       \/ /\ fn = "delay"
          /\ \/ arg \in [tap : {PyInt(5)},
                         chipSel : {PyInt(c) : c \in Chips},
                         laneSel : {PyInt(l) : l \in Lanes}]
             \/ arg \in [tap : {PyInt(0), PyInt(31)},
                         chipSel : {None, PyList(<<0, 2>>), PyList(<<3>>), PyList(<<>>)},
                         laneSel : {None, PyList(<<3, 1>>), PyList(<<0, 1, 7>>),
                                    PyList(<<4, 4>>), PyList(<<>>)}]
          /\ env = envOf(healthy, 3)
          /\ dev = delay(devOf(healthy, 2, allOff), PyInt(9), None, None)
       \/ /\ fn = "_set"
          /\ \E f \in Fields : \E v \in 0..(2 ^ f.len - 1) :
                /\ f.len <= FieldBits \/ v \in {0, 1, 2 ^ f.len - 1}
                /\ arg = [w |-> f.w, v |-> v, m |-> (2 ^ f.len - 1) * 2 ^ f.lo]
          /\ env = envOf(healthy, 3)
          /\ dev = devOf(healthy, 2, allOff)
       \/ /\ fn = "isLaneBonded"
          /\ \E b \in [Chips -> {3, 4}], odd \in OddLanes, bond \in BOOLEAN :
                /\ arg = [bondAllAdcs |-> bond,
                          first |-> [c \in Chips |-> [l \in Lanes |->
                                        b[c] + (IF <<c, l>> = odd THEN 1 ELSE 0)]]]
                /\ env = [envOf(healthy, 3) EXCEPT
                            !.rampStart = [c \in Chips |-> [l \in Lanes |->
                                (2 ^ (snapWidthList[c] - 1) + arg.first[c][l])
                                    % (2 ^ snapWidthList[c])]]]
          /\ dev = devOf(healthy, 2, allOff)
       \/ /\ fn = "ramp"
          /\ \E c \in {0, 1} : \E start \in 0..(2 ^ snapWidthList[c] - 1) :
                /\ arg = [ram |-> c, start |-> start]
                /\ env = rampEnv(c, start)
                /\ dev = [rampDev(c) EXCEPT !.bram[c] = capture(rampDev(c), c)]

\* t = self.decideDelay(vals)
decideDelay_call ==
    /\ pc = "fn"
    /\ fn = "decideDelay"
    /\ IsNone(out)
    /\ out' = Ret(decideDelay(arg))
    /\ UNCHANGED <<dev, env, pc, adc, u, sw, ret, hist, fn, arg, lwaf>>

\* pattern = self._signed(data, res)
signed_call ==
    /\ pc = "fn"
    /\ fn = "_signed"
    /\ IsNone(out)
    /\ out' = Ret(_signed(arg.data, arg.res))
    /\ UNCHANGED <<dev, env, pc, adc, u, sw, ret, hist, fn, arg, lwaf>>

\* best = get_best_delays(errs) for one chip and lane, next to what
\* decideDelay makes of the same vector
get_best_delays_call ==
    /\ pc = "fn"
    /\ fn = "get_best_delays"
    /\ IsNone(out)
    /\ out' = Ret([best |-> get_best_delays(arg, TAP_STEP_SIZE), t |-> decideDelay(arg)])
    /\ UNCHANGED <<dev, env, pc, adc, u, sw, ret, hist, fn, arg, lwaf>>

\* _check(data) with the mode and the patterns in effect
check_call ==
    /\ pc = "fn"
    /\ fn = "_check"
    /\ IsNone(out)
    /\ out' = Ret(_check(arg.data, arg.mode, arg.pattern1, arg.pattern2))
    /\ UNCHANGED <<dev, env, pc, adc, u, sw, ret, hist, fn, arg, lwaf>>

\* _check(self.readRAM(cs)) in ramp mode
ramp_call ==
    /\ pc = "fn"
    /\ fn = "ramp"
    /\ IsNone(out)
    /\ out' = Ret(_check(readRAM(dev, arg.ram, TRUE, FALSE), "ramp", None, None))
    /\ UNCHANGED <<dev, env, pc, adc, u, sw, ret, hist, fn, arg, lwaf>>

\* ok = self.isLaneBonded(bondAllAdcs)
isLaneBonded_call ==
    /\ pc = "fn"
    /\ fn = "isLaneBonded"
    /\ IsNone(out)
    /\ \E r \in {isLaneBonded(dev, arg.bondAllAdcs)} :
          /\ dev' = r.dev
          /\ out' = Ret(r.ok)
    /\ UNCHANGED <<env, pc, adc, u, sw, ret, hist, fn, arg, lwaf>>

\* val = self._set(w, v, m), then self._get(val, m)
set_call ==
    /\ pc = "fn"
    /\ fn = "_set"
    /\ IsNone(out)
    /\ \E val \in {_set(arg.w, arg.v, arg.m)} :
          out' = Ret([set |-> val, get |-> _get(val, arg.m)])
    /\ UNCHANGED <<dev, env, pc, adc, u, sw, ret, hist, fn, arg, lwaf>>

\* self.delay(tap, chipSel, laneSel); pre is the object before the call
delay_call ==
    /\ pc = "fn"
    /\ fn = "delay"
    /\ IsNone(out)
    /\ \E d \in {delay(dev, arg.tap, arg.chipSel, arg.laneSel)} :
        /\ dev' = d
        /\ out' = [t |-> "ret", v |-> [exc |-> d.exc, pre |-> dev]]
    /\ UNCHANGED <<env, pc, adc, u, sw, ret, hist, fn, arg, lwaf>>

\* data = self.readRAM(ram, signed); reads are the RAMs whose transport was
\* read
readRAM_call ==
    /\ pc = "fn"
    /\ fn = "readRAM"
    /\ IsNone(out)
    /\ \E r \in {readRAM_rams(arg.ram)} :
        out' = [t |-> "ret",
                v |-> [exc |-> r.exc,
                       reads |-> r.rams,
                       data |-> [i \in 1..Len(r.rams) |->
                                    readRAM(dev, r.rams[i], arg.signed, FALSE)]]]
    /\ UNCHANGED <<dev, env, pc, adc, u, sw, ret, hist, fn, arg, lwaf>>

\* one of reset(), snapshot(), bitslip(), delay() and setDemux() on its own
method_call ==
    /\ pc = "fn"
    /\ fn = "method"
    /\ IsNone(out)
    /\ \E d \in {call(dev, arg)} :
        /\ dev' = d
        /\ out' = [t |-> "ret", v |-> [exc |-> d.exc]]
    /\ UNCHANGED <<env, pc, adc, u, sw, ret, hist, fn, arg, lwaf>>

\* self.testPatterns(chipSel, taps, mode, pattern1, pattern2) on its own;
\* pre is the object before the call
patterns_call ==
    /\ pc = "fn"
    /\ fn = "patterns"
    /\ IsNone(out)
    /\ \E r \in {testPatterns(dev, arg.chipSel, arg.taps, arg.mode,
                              arg.pattern1, arg.pattern2)} :
        /\ dev' = r.dev
        /\ out' = [t |-> "ret", v |-> [exc |-> r.exc, results |-> r.results, pre |-> dev]]
    /\ UNCHANGED <<env, pc, adc, u, sw, ret, hist, fn, arg, lwaf>>

NextFn ==
    \/ testPatterns_call
    \/ patterns_call
    \/ method_call
    \/ readRAM_call
    \/ delay_call
    \/ set_call
    \/ decideDelay_call
    \/ signed_call
    \/ get_best_delays_call
    \/ check_call
    \/ ramp_call
    \/ isLaneBonded_call

SpecFn == InitFn /\ [][NextFn]_vars

\* ------------------------------------------- LwaF: calls and connections

\* the loop `for feng in self.fengs` that counts dead engines, from the
\* i-th engine on; keys are the hosts of rv.  `+= 1` on an engine without
\* error_count and self.declare_feng_dead, which LwaF does not define, end
\* the loop with AttributeError
RECURSIVE count_dead(_, _, _, _)
count_dead(o, keys, dead_count_threshold, i) ==
    IF i > Len(o.fengs) THEN o
    ELSE LET h == o.fengs[i]
             n == IF h \in keys THEN 0 ELSE o.error_count[h] + 1
         IN  IF h \notin keys /\ o.error_count[h] < 0 THEN [o EXCEPT !.exc = TRUE]
             ELSE IF n > dead_count_threshold
             THEN [o EXCEPT !.error_count[h] = n, !.exc = TRUE, !.declared = @ \cup {h}]
             ELSE count_dead([o EXCEPT !.error_count[h] = n], keys,
                             dead_count_threshold, i + 1)

\* do_for_all_f(method, check_programmed=.., dead_count_threshold=..) of a
\* callable method; answers are the boards that return before the timeout;
\* where a board does not, threaded_fpga_function either raises RuntimeError
\* or returns what it has (partial)
do_for_all_f(o, check_programmed, dead_count_threshold, answers, partial) ==
    LET instances == IF check_programmed
                     THEN SelectSeq(o.fengs, LAMBDA h : o.board[h].programmed)
                     ELSE o.fengs
        keys == SeqSet(instances) \cap answers
    IN  IF Len(o.fengs) = 0
        THEN [o |-> o, rv |-> "dict", keys |-> {}, attempted |-> {}]
        ELSE IF instances = <<>>
        THEN [o |-> [o EXCEPT !.exc = TRUE], rv |-> "raise", keys |-> {}, attempted |-> {}]
        ELSE IF keys # SeqSet(instances) /\ ~partial
        THEN [o |-> o, rv |-> "None", keys |-> {}, attempted |-> SeqSet(instances)]
        ELSE IF IsNone(dead_count_threshold)
        THEN [o |-> o, rv |-> "dict", keys |-> keys, attempted |-> SeqSet(instances)]
        ELSE [o |-> count_dead(o, keys, dead_count_threshold.v, 1),
              rv |-> IF count_dead(o, keys, dead_count_threshold.v, 1).exc
                     THEN "raise" ELSE "dict",
              keys |-> keys, attempted |-> SeqSet(instances)]

\* the loop `for feng in self.fengs` of establish_connections_multithread
\* from list position i on: self.fengs.remove(feng) inside the loop moves
\* the rest of the list one place down under the iterator
RECURSIVE remove_dead(_, _, _)
remove_dead(o, is_connected, i) ==
    IF i > Len(o.fengs) THEN o
    ELSE LET h == o.fengs[i]
         IN  IF h \notin is_connected
             THEN remove_dead([o EXCEPT !.dead_fengs = @ \cup {h},
                                        !.fengs = SelectSeq(@, LAMBDA x : x # h)],
                              is_connected, i + 1)
             ELSE remove_dead([o EXCEPT !.error_count[h] = 0], is_connected, i + 1)

\* establish_connections_multithread() up to the first q.get(): the lists
\* emptied, one thread per host started
establish_connections_multithread ==
    /\ pc = "lwaf"
    /\ lwaf.at = "init"
    /\ lwaf' = [lwaf EXCEPT !.fengs = <<>>, !.dead_fengs = {},
                            !.threads = SeqSet(hosts), !.at = "get"]
    /\ UNCHANGED <<dev, env, pc, adc, u, sw, ret, hist, fn, arg, out>>

\* the thread of one host: Snap2Fengine(host) put on the queue; the
\* constructor may raise on a board that is not reachable, and the thread
\* then ends without a put
_try_to_connect ==
    /\ pc = "lwaf"
    /\ \E h \in lwaf.threads : \E raises \in BOOLEAN :
        /\ raises => ~lwaf.board[h].connected
        /\ lwaf' = [lwaf EXCEPT !.threads = @ \ {h},
                                !.q = IF raises THEN @ ELSE Append(@, h)]
    /\ UNCHANGED <<dev, env, pc, adc, u, sw, ret, hist, fn, arg, out>>

\* one iteration of `for host in hosts: host, feng = q.get() ...`
establish_connections_get ==
    /\ pc = "lwaf"
    /\ lwaf.at = "get"
    /\ lwaf.got < Len(hosts)
    /\ lwaf.q # <<>>
    /\ lwaf' = [lwaf EXCEPT !.fengs = Append(@, Head(lwaf.q)),
                            !.q = Tail(@), !.got = @ + 1]
    /\ UNCHANGED <<dev, env, pc, adc, u, sw, ret, hist, fn, arg, out>>

\* the rest of establish_connections_multithread(): q.join(), is_connected
\* asked of every board with the default dead_count_threshold=3, the boards
\* that are not connected removed.  A do_for_all_f that returns None makes
\* is_connected.get raise
establish_connections_finish ==
    /\ pc = "lwaf"
    /\ lwaf.at = "get"
    /\ lwaf.got = Len(hosts)
    /\ \E answers \in SUBSET SeqSet(hosts), partial \in BOOLEAN :
       \E r \in {do_for_all_f(lwaf, FALSE, PyInt(3), answers, partial)} :
        /\ \A h \in SeqSet(hosts) : lwaf.board[h].connected => h \in answers
        /\ lwaf' = IF r.rv = "dict"
                   THEN [remove_dead(r.o, {h \in r.keys : lwaf.board[h].connected}, 1)
                            EXCEPT !.at = "done"]
                   ELSE [r.o EXCEPT !.exc = TRUE, !.at = "raised"]
    /\ UNCHANGED <<dev, env, pc, adc, u, sw, ret, hist, fn, arg, out>>

\* rv = self.do_for_all_f(method, check_programmed=.., dead_count_threshold=..)
\* on the connections made
do_for_all_f_call ==
    /\ pc = "lwaf"
    /\ lwaf.at = "done"
    /\ lwaf.calls < MaxCalls
    /\ \E check_programmed \in BOOLEAN, dead_count_threshold \in {None, PyInt(1)},
          answers \in SUBSET SeqSet(hosts), partial \in BOOLEAN :
       \E r \in {do_for_all_f([lwaf EXCEPT !.exc = FALSE, !.declared = {}],
                              check_programmed, dead_count_threshold, answers, partial)} :
        lwaf' = [r.o EXCEPT
                    !.calls = @ + 1,
                    !.last = [check_programmed |-> check_programmed,
                              dead_count_threshold |-> dead_count_threshold,
                              fengs |-> lwaf.fengs,
                              before |-> lwaf.error_count,
                              attempted |-> r.attempted,
                              returned |-> r.attempted \cap answers,
                              rv |-> r.rv],
                    !.fails = [h \in SeqSet(hosts) |->
                                IF h \notin r.attempted THEN lwaf.fails[h]
                                ELSE IF h \in answers THEN 0
                                ELSE lwaf.fails[h] + 1]]
    /\ UNCHANGED <<dev, env, pc, adc, u, sw, ret, hist, fn, arg, out>>

\* LwaF(passive=True) before establish_connections_multithread(); every
\* board reachable or not, programmed or not
InitLwa ==
    /\ pc = "lwaf"
    /\ adc = 1
    /\ u = 0
    /\ sw = sw0
    /\ ret = "none"
    /\ hist = hist0
    /\ fn = "lwaf"
    /\ arg = None
    /\ out = None
    /\ env = envOf(healthy, 3)
    /\ dev = devOf(healthy, 2, allOff)
    /\ \E b \in [SeqSet(hosts) -> [connected : BOOLEAN, programmed : BOOLEAN]] :
        /\ \A h \in SeqSet(hosts) : ~b[h].programmed => b[h].connected
        /\ lwaf = [lwaf0 EXCEPT !.board = b]

NextLwa ==
    \/ establish_connections_multithread
    \/ _try_to_connect
    \/ establish_connections_get
    \/ establish_connections_finish
    \/ do_for_all_f_call

SpecLwa == InitLwa /\ [][NextLwa]_vars

\* ------------------------------------------------------------ properties

StageOrder == <<"lock", "line", "frame", "ramp", "bond">>

\* C1: calibrate() runs its stages in the order lock check, line clock
\* alignment, frame clock alignment, ramp test, lane bonding check, each
\* stage starting only after the one before it passed; the first stage that
\* fails is the last one started and makes calibrate() return False at once;
\* calibrate() returns True only with the lock bit read as locked and all
\* five stages passed, and False only with a failed stage.
C1_StagesInOrder ==
    /\ \E n \in 0..Len(StageOrder) : hist.stages = SubSeq(StageOrder, 1, n)
    /\ Len(hist.results) <= Len(hist.stages)
    /\ \A i \in 2..Len(hist.stages) : Len(hist.results) >= i - 1 /\ hist.results[i - 1]
    /\ \A i \in 1..Len(hist.results) :
          ~hist.results[i] => i = Len(hist.stages) /\ ret = "False" /\ pc = "done"
    /\ ret = "True" =>
          getWord_ADC16_LOCKED # 0 /\ hist.results = <<TRUE, TRUE, TRUE, TRUE, TRUE>>
    /\ ret = "False" => \E i \in 1..Len(hist.results) : ~hist.results[i]

\* a run that went through all five stages and returned True
C1_Witness == ret = "True" /\ hist.stages = StageOrder /\ pc = "done"

\* C2: whenever calibrate() has returned, on success or on any abort and from
\* any initial stimulus state, the stimulus of every chip is off.
C2_StimulusOffOnReturn ==
    pc = "done" => \A c \in Chips : dev.stim[c].mode = "off"

\* C3: from the first step of calibrate() on, the demux mode is the one of
\* full interleave (numChannel = 1) unless calibrate() returned True, and
\* then it is the mode of the numChannel given to init.
C3_DemuxFullInterleave ==
    pc \notin {"idle", "fn"} =>
        dev.demux = (IF ret = "True" THEN modeMap[dev.numChannel] ELSE modeMap[1])

\* a successful run that left the two channel mode behind
C3_Witness ==
    /\ ret = "True"
    /\ dev.numChannel = 2
    /\ dev.demux = modeMap[2]
    /\ dev.demux # modeMap[1]

\* C4: if the bitslip search of any chip ran out of iterations with a lane
\* still in error, the frame clock stage fails and calibrate() returns False
\* without running the ramp test or the lane bonding check.
C4_ExhaustedLaneAborts ==
    (Len(hist.results) >= 3 /\ \E c \in Chips : hist.exhausted[c]) =>
        /\ ~hist.results[3]
        /\ ret = "False"
        /\ "ramp" \notin SeqSet(hist.stages)
        /\ "bond" \notin SeqSet(hist.stages)

\* C5: if decideDelay returned "no solution" for some lane of some chip
\* during the line clock alignment, the line clock stage fails and
\* calibrate() returns False without starting the bitslip search.
C5_NoSolutionAborts ==
    (Len(hist.results) >= 2
        /\ \E c \in Chips, l \in Lanes : hist.t[c][l] = PyBool(FALSE)) =>
        /\ ~hist.results[2]
        /\ ret = "False"
        /\ "frame" \notin SeqSet(hist.stages)

\* the run of zero entries of data that ends at i, and the one that starts at i
backRun(data, i) ==
    Cardinality({n \in 1..i : \A k \in (i - n + 1)..i : data[k] = 0})
fwdRun(data, i) ==
    Cardinality({n \in 1..(Len(data) - i + 1) : \A k \in i..(i + n - 1) : data[k] = 0})
margin(data, i) ==
    IF backRun(data, i) <= fwdRun(data, i) THEN backRun(data, i) ELSE fwdRun(data, i)

\* C6: for a vector with a zero entry decideDelay returns the lowest index
\* of the largest margin, the margin of an index being the shorter of the two
\* runs of zero entries that end and that start at it; [0,0,0,0,0] gives 2,
\* [1,0,0,0,1] gives 2 and [0,0,1,0,0] gives 0.
C6_LargestMargin ==
    (fn = "decideDelay" /\ ~IsNone(out) /\ \E i \in 1..Len(arg) : arg[i] = 0) =>
        /\ out.v.v \in 0..(Len(arg) - 1)
        /\ \A j \in 1..Len(arg) : margin(arg, j) <= margin(arg, out.v.v + 1)
        /\ \A j \in 1..out.v.v : margin(arg, j) < margin(arg, out.v.v + 1)
        /\ arg = <<0, 0, 0, 0, 0>> => out.v.v = 2
        /\ arg = <<1, 0, 0, 0, 1>> => out.v.v = 2
        /\ arg = <<0, 0, 1, 0, 0>> => out.v.v = 0

\* the widest interior of [1,0,0,0,1] was chosen
C6_Witness ==
    fn = "decideDelay" /\ ~IsNone(out) /\ arg = <<1, 0, 0, 0, 1>> /\ out.v.v = 2

\* C7: decideDelay returns "no solution" exactly when every entry is
\* nonzero, a tap index it returns has zero error, and the test the caller
\* makes of the result (`if not t`) tells a tap index from "no solution".
C7_NoSolutionDistinct ==
    (fn = "decideDelay" /\ ~IsNone(out)) =>
        /\ (out.v = PyBool(FALSE)) <=> (\A i \in 1..Len(arg) : arg[i] # 0)
        /\ out.v.t = "int" => arg[out.v.v + 1] = 0
        /\ out.v.t = "int" => ~Falsy(out.v)

\* C8: after alignLineClock in dual pattern mode, for every chip and lane
\* for which decideDelay returned a tap t (0 included), curDelay[chip][lane]
\* is t.
C8_WinningTapApplied ==
    Len(hist.results) >= 2 =>
        \A c \in Chips, l \in Lanes :
            hist.t[c][l].t = "int" => hist.lineDelay[c][l] = hist.t[c][l].v

\* the samples of a lane alternate a, b, a, b, ...
alternates(col, a, b) == \A k \in DOMAIN col : col[k] = (IF k % 2 = 0 THEN a ELSE b)

\* C9: the err-mode scorer with two patterns gives zero for every lane whose
\* samples alternate p1, p2, ... and for every lane whose samples alternate
\* p2, p1, ..., lane by lane.
C9_BothPhasesZero ==
    (fn = "_check" /\ arg.mode = "err" /\ ~IsNone(out)) =>
        \A l \in Lanes :
            (\/ alternates(column(arg.data, l), arg.pattern1.v, arg.pattern2.v)
             \/ alternates(column(arg.data, l), arg.pattern2.v, arg.pattern1.v))
                => out.v[l] = 0

\* one capture with lane 0 and lane 1 in opposite phases, both scored zero,
\* and a broken lane 2 that is not
C9_Witness ==
    /\ fn = "_check" /\ arg.mode = "err" /\ ~IsNone(out)
    /\ arg.pattern1.v # arg.pattern2.v
    /\ alternates(column(arg.data, 0), arg.pattern1.v, arg.pattern2.v)
    /\ alternates(column(arg.data, 1), arg.pattern2.v, arg.pattern1.v)
    /\ out.v[0] = 0 /\ out.v[1] = 0 /\ out.v[2] # 0

\* the samples of a lane as the chip sent them count up by one modulo 2^w
countsUp(col, w) ==
    \A k \in 0..(Cardinality(DOMAIN col) - 2) : col[k + 1] = (col[k] + 1) % (2 ^ w)

\* C10: the ramp-mode scorer gives zero for every lane whose captured
\* samples count up by one per sample modulo the range of the chip, whatever
\* the first sample.
C10_RampScoresZero ==
    (fn = "ramp" /\ ~IsNone(out)) =>
        \A l \in Lanes :
            countsUp(column(readRAM(dev, arg.ram, FALSE, TRUE), l), snapWidthList[arg.ram])
                => out.v[l] = 0

\* a ramp that wraps inside the capture of lane 0 and is scored zero
C10_Witness ==
    /\ fn = "ramp" /\ ~IsNone(out)
    /\ countsUp(column(readRAM(dev, arg.ram, FALSE, TRUE), 0), snapWidthList[arg.ram])
    /\ \E k \in 0..(NumRows - 2) :
          readRAM(dev, arg.ram, FALSE, TRUE)[k + 1][0] < readRAM(dev, arg.ram, FALSE, TRUE)[k][0]
    /\ out.v[0] = 0

\* C11: one sample of a perfect wrapped ramp replaced by a value out of
\* sequence gives a ramp score of exactly one for that lane and zero for the
\* untouched ramps, wherever the sample is and with or without the wrap.
C11_OneBadSampleOneError ==
    (fn = "_check" /\ arg.mode = "ramp" /\ ~IsNone(out)) =>
        /\ out.v[0] = 1
        /\ \A l \in 3..(NumLanes - 1) : out.v[l] = 0

\* the transitions of a lane that are not +1 modulo the range
badSteps(col) ==
    Cardinality({k \in 0..(Cardinality(DOMAIN col) - 2) :
                    col[k + 1] # (col[k] + 1) % (2 ^ RESOLUTION)})

\* C20: the ramp score of a lane is the number of its transitions that are
\* not +1 modulo the range, so it is nonzero for a constant lane and for a
\* lane stepping by 2.
C20_RampScoreCountsBadSteps ==
    (fn = "_check" /\ arg.mode = "ramp" /\ ~IsNone(out)) =>
        \A l \in Lanes : out.v[l] = badSteps(column(arg.data, l))

\* C12: the bitslip search scores a chip of resolution r at most 2*r times
\* and slips no lane more than 2*r times; a chip whose scorer reported an
\* error on every attempt got exactly 2*r attempts, and the frame clock
\* stage then fails.
C12_BitslipSearchBounded ==
    \A c \in Chips :
        /\ hist.tries[c] <= 2 * snapWidthList[c]
        /\ \A l \in Lanes : dev.nBitslip[c][l] <= 2 * snapWidthList[c]
        /\ hist.exhausted[c] =>
              /\ hist.tries[c] = 2 * snapWidthList[c]
              /\ Len(hist.results) >= 3 => ~hist.results[3]

\* C13: isLaneBonded(bondAllAdcs) returns True if and only if, on every chip,
\* the first captured sample of every lane equals the reference: the chip's
\* own lane 0 first sample without bondAllAdcs, the first chip's lane 0 first
\* sample with it.
C13_BondedIffFirstSamplesEqual ==
    (fn = "isLaneBonded" /\ ~IsNone(out)) =>
        (out.v <=> \A c \in Chips : \A l \in Lanes :
                        arg.first[c][l] = (IF arg.bondAllAdcs THEN arg.first[adcList[1]][0]
                                           ELSE arg.first[c][0]))

\* all chips started on sample 3 in every lane, bonding across chips asked
\* for and found
C13_Witness ==
    /\ fn = "isLaneBonded" /\ ~IsNone(out)
    /\ arg.bondAllAdcs
    /\ \A c \in Chips : \A l \in Lanes : arg.first[c][l] = 3
    /\ out.v

\* C14: for a contiguous mask m, a value v that fits the field of m and any
\* base word w, _get(_set(w, v, m), m) is v and _set(w, v, m) has the bits
\* of w at every position outside m.
C14_SetThenGet ==
    (fn = "_set" /\ ~IsNone(out)) =>
        /\ out.v.get = arg.v
        /\ \A i \in WordBits : Bit(arg.m, i) = 0 => Bit(out.v.set, i) = Bit(arg.w, i)

\* the field of bits 1..2 of 0b1111 replaced by 0b01
C14_Witness ==
    /\ fn = "_set" /\ ~IsNone(out)
    /\ arg = [w |-> 15, v |-> 1, m |-> 6]
    /\ out.v = [set |-> 11, get |-> 1]

\* C15: in every state reached by calibrate(), with its alignLineClock(), and
\* by a testPatterns() sweep after it, every tap loaded into the hardware and
\* every entry of curDelay lies in 0..31.
C15_TapsInRange ==
    \A c \in Chips : \A l \in Lanes :
        /\ dev.curDelay[c][l] \in 0..(TapRange - 1)
        /\ dev.tap[c][l] \in 0..(TapRange - 1)

\* calibrate() returned True and a sweep over the taps 0 and 31 of chip 1
\* left the chip on tap 31
C15_Witness ==
    /\ ret = "True" /\ fn = "testPatterns" /\ ~IsNone(out)
    /\ arg = [chipSel |-> PyInt(1), taps |-> PyList(<<0, 31>>)]
    /\ ~out.v.exc
    /\ \A l \in Lanes : dev.curDelay[1][l] = 31 /\ dev.tap[1][l] = 31

\* C17: a full delay sweep, testPatterns with taps=True, applies and scores
\* every tap of 0..31 in ascending order, so the error vector of every lane
\* handed to the margin selector has 32 entries, one per tap.
C17_FullSweepAllTaps ==
    (fn = "testPatterns" /\ ~IsNone(out) /\ EqTrue(arg.taps) /\ ~out.v.exc) =>
        \A c \in DOMAIN out.v.results :
            /\ DOMAIN out.v.results[c] = 0..(TapRange - 1)
            /\ \A l \in Lanes : Len(laneVals(out.v.results[c], l)) = TapRange

\* C16: delay(tap, chip, lane) with a tap outside 0..31, or with a chip or a
\* lane index out of range, fails before any register write and leaves
\* curDelay and the control word untouched; no call makes a tap spill into
\* the bits of the control word outside the tap field (no lane is slipped).
C16_DelayRejectsOutOfRange ==
    (fn = "delay" /\ ~IsNone(out)) =>
        /\ dev.nBitslip = out.v.pre.nBitslip
        /\ (\/ IsInt(arg.tap) /\ arg.tap.v \notin 0..(TapRange - 1)
            \/ IsInt(arg.chipSel) /\ arg.chipSel.v \notin Chips
            \/ IsInt(arg.laneSel) /\ arg.laneSel.v \notin Lanes) =>
                /\ out.v.exc
                /\ [dev EXCEPT !.exc = FALSE] = out.v.pre

\* C18: readRAM called with a chip that is not a configured chip, or with a
\* list that holds one, fails with an error and reads no transport.
C18_ReadRAMRejectsBadChip ==
    (/\ fn = "readRAM" /\ ~IsNone(out)
     /\ \/ IsInt(arg.ram) /\ arg.ram.v \notin Chips
        \/ IsList(arg.ram) /\ \E i \in 1..Len(arg.ram.v) : arg.ram.v[i] \notin Chips) =>
        /\ out.v.exc
        /\ out.v.reads = <<>>

\* readRAM([1, 4]) raised
C18_Witness ==
    /\ fn = "readRAM" /\ ~IsNone(out)
    /\ arg.ram = PyList(<<1, 4>>)
    /\ out.v.exc

\* C19: every command written to the control register is framed clear, set,
\* clear: when reset(), snapshot(), bitslip(), delay() or setDemux() has
\* returned the control register holds zero.
C19_ControlRegisterCleared ==
    (fn = "method" /\ ~IsNone(out) /\ ~out.v.exc) => dev.ctrl = 0

\* lane l of chip c holds, in the capture last taken, nothing but the words a
\* and b in turn, in one of the two orders
holdsDual(c, l, a, b) ==
    \/ \A k \in Rows : readRAM(dev, c, FALSE, TRUE)[k][l] = (IF k % 2 = 0 THEN a ELSE b)
    \/ \A k \in Rows : readRAM(dev, c, FALSE, TRUE)[k][l] = (IF k % 2 = 0 THEN b ELSE a)

\* C21: the line clock check that lets calibrate() go on to the frame clock
\* alignment passes only if every lane of every chip has no mismatch against
\* the canonical dual pattern in one of its two orders; a lane stuck at
\* another value makes it fail.
C21_LineCheckNeedsZeroMismatch ==
    (hist.stages = <<"lock", "line">> /\ Len(hist.results) = 2 /\ hist.results[2]) =>
        \A c \in Chips : \A l \in Lanes :
            holdsDual(c, l, self_p1 % (2 ^ snapWidthList[c]), self_p2 % (2 ^ snapWidthList[c]))

\* the w-bit word captured for lane l of chip c at row k
captured(c, k, l) ==
    dev.bram[c][k * NumLanes + l] \div (2 ^ (IF snapWidthList[c] > 8 THEN 16 - snapWidthList[c] ELSE 0))

\* C22: readRAM with signed=True gives v - 2^w for every captured w-bit word
\* v with its top bit set (v >= 2^(w-1)) and v itself for every other word,
\* so every value it returns lies in -2^(w-1) .. 2^(w-1) - 1.
C22_SignedReadTwosComplement ==
    (fn = "readRAM" /\ ~IsNone(out) /\ arg.signed) =>
        \A i \in 1..Len(out.v.reads) : \A k \in Rows : \A l \in Lanes :
            LET c == out.v.reads[i]
                w == snapWidthList[c]
                v == captured(c, k, l)
            IN  /\ out.v.data[i][k][l] = (IF v >= 2 ^ (w - 1) THEN v - 2 ^ w ELSE v)
                /\ out.v.data[i][k][l] \in (-(2 ^ (w - 1)))..(2 ^ (w - 1) - 1)

\* C23: for every single test pattern P of 0..2^res-1 that the link delivers
\* faithfully, testPatterns in err mode with pattern1 = P reports no error on
\* any lane.
C23_FaithfulPatternNoError ==
    (/\ fn = "patterns" /\ ~IsNone(out)
     /\ arg.mode = "err" /\ IsNone(arg.taps) /\ IsInt(arg.chipSel)
     /\ IsInt(arg.pattern1) /\ IsNone(arg.pattern2)) =>
        /\ ~out.v.exc
        /\ \A l \in Lanes : out.v.results[arg.chipSel.v][l] = 0

\* the chips a testPatterns call selects
selected(chipSel) ==
    IF IsNone(chipSel) THEN Chips
    ELSE IF IsList(chipSel) THEN SeqSet(chipSel.v)
    ELSE {chipSel.v}

\* the pattern a chip of resolution w is asked for, converted for that chip;
\* without patterns the synthesized half-high/half-low word of that w
ownPattern(p, w, first) ==
    IF IsInt(p) THEN PyInt(_signed(p.v, w))
    ELSE IF first THEN PyInt(_signed((2 ^ (w \div 2) - 1) * 2 ^ (w \div 2), w))
    ELSE None

\* C24: in every testPatterns call each selected chip is scored against the
\* signed conversion, for this chip's own resolution, of the pattern this chip
\* was asked to produce, also with chips of different resolutions in one call
\* and with the synthesized half-high/half-low pattern.
C24_ScoredAgainstOwnPattern ==
    (fn = "patterns" /\ ~IsNone(out) /\ arg.mode = "err" /\ IsNone(arg.taps)) =>
        /\ ~out.v.exc
        /\ \A c \in selected(arg.chipSel) : \A l \in Lanes :
              out.v.results[c][l] =
                  _check(readRAM(dev, c, TRUE, FALSE), "err",
                         ownPattern(arg.pattern1, snapWidthList[c], IsNone(arg.pattern2)),
                         ownPattern(arg.pattern2, snapWidthList[c], FALSE))[l]

\* C25: once the final frame clock check has been made, every chip has been
\* scored by it, and against the pair of patterns the bitslip search used
\* for that chip.
C25_CheckUsesSearchPatterns ==
    Len(hist.results) >= 3 =>
        \A c \in Chips : hist.checked[c] = hist.searched[c]

\* the errors of lane l of chip c in the capture d holds, against the dual
\* pattern of the chip's resolution
frameErrs(d, c, l) ==
    _check(readRAM(d, c, TRUE, FALSE), "err",
           PyInt(_signed(dualP1(snapWidthList[c]), snapWidthList[c])),
           PyInt(_signed(dualP2(snapWidthList[c]), snapWidthList[c])))[l]

\* C26: in an iteration of the bitslip search a lane that scores zero gets
\* no bitslip; once every lane of the chip scores zero in an iteration the
\* search leaves the chip, and a chip is scored and slipped by the search
\* only while the search is at that chip.
C26_ZeroLaneNotSlipped ==
    [][/\ \A c \in Chips :
            hist'.tries[c] # hist.tries[c] =>
                /\ pc = "alignFrameClock" /\ adcList[adc] = c
                /\ \A l \in Lanes :
                      dev'.nBitslip[c][l] =
                          dev.nBitslip[c][l] + (IF frameErrs(dev', c, l) = 0 THEN 0 ELSE 1)
                /\ (\A l \in Lanes : frameErrs(dev', c, l) = 0) =>
                      (pc' # "alignFrameClock" \/ adc' # adc)
       /\ \A c \in Chips :
            (pc = "alignFrameClock" /\ pc' = "alignFrameClock" /\ adcList[adc] # c) =>
                dev'.nBitslip[c] = dev.nBitslip[c]]_vars

\* the search left chip 0 before its last attempt, having slipped lane 2 into
\* place and no other lane
C26_Witness ==
    /\ pc = "alignFrameClock" /\ adc = 2
    /\ hist.tries[0] \in 2..(2 * snapWidthList[0] - 1)
    /\ dev.nBitslip[0][2] = hist.tries[0] - 1
    /\ \A l \in Lanes \ {2} : dev.nBitslip[0][l] = 0

\* C27: with the lock bit read as unlocked calibrate() returns False without
\* an exception and has written no delay tap, issued no bitslip, triggered no
\* capture and sent no stimulus command; curDelay is as it was.
C27_UnlockedNoWrites ==
    (env.lock = 0 /\ fn = "calibrate" /\ pc # "idle") =>
        /\ pc = "done" /\ ret = "False" /\ ~dev.exc
        /\ dev.nDelay = 0 /\ dev.nStim = 0
        /\ \A c \in Chips :
              /\ ~dev.armed[c] /\ dev.snapCtrl[c] = 0
              /\ \A i \in DOMAIN dev.bram[c] : dev.bram[c][i] = 0
              /\ \A l \in Lanes :
                    dev.nBitslip[c][l] = 0 /\ dev.curDelay[c][l] = 0 /\ dev.tap[c][l] = 0

\* calibrate() returned False from the lock check
C27_Witness ==
    /\ env.lock = 0 /\ fn = "calibrate"
    /\ pc = "done" /\ ret = "False"
    /\ hist.stages = <<"lock">> /\ hist.results = <<FALSE>>

\* C28: when calibrate() aborts at the frame clock alignment, the ramp test
\* or the lane bonding check, curDelay is what it was at the end of
\* alignLineClock, and so are the taps loaded in the hardware.
C28_TapsKeptOnAbort ==
    (fn = "calibrate" /\ pc = "done" /\ ret = "False" /\ Len(hist.results) >= 3) =>
        /\ dev.curDelay = hist.lineDelay
        /\ dev.tap = hist.lineDelay

\* an abort after the line clock alignment with chosen taps still in place
C28_Witness ==
    /\ fn = "calibrate" /\ pc = "done" /\ ret = "False" /\ Len(hist.results) >= 3
    /\ dev.curDelay = hist.lineDelay
    /\ \E c \in Chips : \E l \in Lanes : hist.lineDelay[c][l] \notin {0, NumTaps - 1}

\* C29: testPatterns without taps, and testPatterns in ramp mode whatever
\* taps it is given, leaves every entry of curDelay and every tap loaded in
\* the hardware as it was and makes no delay() call.
C29_NoTapsNoDelayWrite ==
    (fn = "patterns" /\ ~IsNone(out) /\ (IsNone(arg.taps) \/ arg.mode = "ramp")) =>
        /\ dev.curDelay = out.v.pre.curDelay
        /\ dev.tap = out.v.pre.tap
        /\ dev.nDelay = out.v.pre.nDelay

\* a ramp test asked for with a list of taps, scored with every lane still
\* on tap 9
C29_Witness ==
    /\ fn = "patterns" /\ ~IsNone(out) /\ ~out.v.exc
    /\ arg.mode = "ramp" /\ arg.taps = PyList(<<3, 7>>)
    /\ \A c \in Chips : \A l \in Lanes : dev.curDelay[c][l] = 9 /\ dev.tap[c][l] = 9
    /\ dev.bram # out.v.pre.bram

\* C30: testPatterns with a single integer tap t of 0..31 applies exactly
\* this tap to the selected chips, with one delay() call and one capture,
\* and returns the scores of that one tap.
C30_SingleIntegerTap ==
    (fn = "patterns" /\ ~IsNone(out) /\ arg.mode # "ramp"
     /\ IsInt(arg.taps) /\ arg.taps.v \in 0..(TapRange - 1)) =>
        /\ ~out.v.exc
        /\ dev.nDelay = out.v.pre.nDelay + 1
        /\ \A c \in selected(arg.chipSel) :
              /\ DOMAIN out.v.results[c] = {arg.taps.v}
              /\ \A l \in Lanes : dev.curDelay[c][l] = arg.taps.v /\ dev.tap[c][l] = arg.taps.v

\* the calls testPatterns rejects with ValueError("Invalid parameter"): the
\* argument checks and the last branch of the pattern selection
rejected(a) ==
    \/ ~testPatterns_args(a.chipSel, a.taps, a.mode).ok
    \/ testPatterns_kind(a.mode, a.pattern1, a.pattern2) = "invalid"

\* C31: a testPatterns call rejected with an invalid-parameter error (bad
\* chip selection, bad taps, unknown mode, invalid pattern combination)
\* leaves the chip-select state, the delay taps and the stimulus mode of
\* every chip as they were before the call.
C31_RejectedBeforeSideEffect ==
    (fn = "patterns" /\ ~IsNone(out) /\ out.v.exc /\ rejected(arg)) =>
        /\ dev.cs = out.v.pre.cs
        /\ dev.tap = out.v.pre.tap
        /\ dev.curDelay = out.v.pre.curDelay
        /\ dev.stim = out.v.pre.stim

\* C32: whenever testPatterns or isLaneBonded issues a stimulus command on
\* path A (test_ads) the chip-select mask holds even chips only, and
\* whenever they issue one on path B (test) it holds odd chips only.
C32_StimulusPathByParity ==
    /\ \A c \in dev.pathA : c % 2 = 0
    /\ \A c \in dev.pathB : c % 2 = 1

\* a run that went through every stage: the pattern commands of the sweeps
\* chip by chip, the ramp commands of isLaneBonded pair by pair
C32_Witness ==
    /\ fn = "calibrate" /\ pc = "done"
    /\ "bond" \in SeqSet(hist.stages)
    /\ dev.pathA = {c \in Chips : c % 2 = 0}
    /\ dev.pathB = {c \in Chips : c % 2 = 1}
    /\ \A c \in Chips : dev.stim[c].mode = "off"

\* C33: no score is computed from a stale capture: whenever testPatterns,
\* the bitslip search or isLaneBonded reads a chip's buffer to score it, a
\* snapshot has stored that buffer after the last delay-tap load, bitslip
\* and stimulus command of that chip.
C33_NoStaleCaptureScored == dev.staleReads = {}

\* a run that swept the taps, slipped a lane and went on to the bonding
\* check, every buffer scored on the way fresh
C33_Witness ==
    /\ fn = "calibrate" /\ pc = "done"
    /\ "bond" \in SeqSet(hist.stages)
    /\ dev.nDelay > NumTaps
    /\ \E c \in Chips : \E l \in Lanes : dev.nBitslip[c][l] > 0
    /\ dev.staleReads = {}
    /\ dev.stale = Chips

\* C34: the two margin selectors agree: for every per-step error vector
\* get_best_delays picks the step index decideDelay picks, times the step
\* size, and where every entry is nonzero (decideDelay gives False) what it
\* returns is not the tap of any step.
C34_SelectorsAgree ==
    (fn = "get_best_delays" /\ ~IsNone(out)) =>
        IF out.v.t = PyBool(FALSE)
        THEN out.v.best \notin {st * TAP_STEP_SIZE : st \in 0..(Len(arg) - 1)}
        ELSE out.v.best = out.v.t.v * TAP_STEP_SIZE

\* C35: with a dead_count_threshold, do_for_all_f increases the error count
\* of an engine only in a call that attempted the method on it and got no
\* return from it, resets the count of every engine that returned, and hands
\* an engine to declare_feng_dead only after more than dead_count_threshold
\* failed attempts in a row; with check_programmed=True as well.
C35_ErrorCountTracksFailedAttempts ==
    (lwaf.calls > 0 /\ ~IsNone(lwaf.last.dead_count_threshold)) =>
        \A h \in SeqSet(lwaf.last.fengs) :
            /\ lwaf.error_count[h] > lwaf.last.before[h] =>
                    h \in lwaf.last.attempted /\ h \notin lwaf.last.returned
            /\ h \in lwaf.last.returned => lwaf.error_count[h] = 0
            /\ h \in lwaf.declared => lwaf.fails[h] > lwaf.last.dead_count_threshold.v

\* C36: after establish_connections_multithread returned, fengs holds no
\* board whose is_connected result was not True, every such board is in
\* dead_fengs, and every board of fengs has its error count at zero.
C36_OnlyConnectedBoardsKept ==
    (lwaf.at = "done" /\ lwaf.calls = 0) =>
        /\ \A h \in SeqSet(lwaf.fengs) : lwaf.board[h].connected
        /\ \A h \in SeqSet(hosts) : ~lwaf.board[h].connected => h \in lwaf.dead_fengs
        /\ \A h \in SeqSet(lwaf.fengs) : lwaf.error_count[h] = 0

\* C37: _signed(x, res) is a reversible mapping: for res 8 and 10 and every
\* x of 0..2^res-1 it returns x - 2^(res-1), the MSB inverted and the
\* result read as two's complement; no other x gives the same value, and x
\* is the value plus 2^(res-1).
C37_SignedIsOffsetBinary ==
    (fn = "_signed" /\ ~IsNone(out)) =>
        /\ out.v = arg.data - 2 ^ (arg.res - 1)
        /\ out.v = PackUnpack((arg.data + 2 ^ (arg.res - 1)) % (2 ^ arg.res), arg.res)
        /\ out.v + 2 ^ (arg.res - 1) = arg.data
        /\ \A y \in 0..(2 ^ arg.res - 1) : _signed(y, arg.res) = out.v => y = arg.data

\* a 10 bit pattern with its MSB clear, converted through the 16 bit pack
\* and unpack
C37_Witness ==
    /\ fn = "_signed" /\ ~IsNone(out)
    /\ arg.res = 10 /\ arg.data = 351
    /\ out.v = -161

\* the lanes a delay call selects
pickedLanes(laneSel) ==
    IF IsNone(laneSel) THEN Lanes
    ELSE IF IsList(laneSel) THEN SeqSet(laneSel.v)
    ELSE {laneSel.v}

\* C38: delay(tap, chipSel, laneSel) strobes exactly the selected (chip,
\* lane) pairs: the tap is loaded into the delay element of every selected
\* pair and of no other (no two pairs share a strobe bit), and afterwards
\* curDelay is tap on the selected pairs and as before on every other pair.
C38_DelayStrobesSelectedOnly ==
    (fn = "delay" /\ ~IsNone(out) /\ ~out.v.exc) =>
        \A c \in Chips : \A l \in Lanes :
            IF c \in selected(arg.chipSel) /\ l \in pickedLanes(arg.laneSel)
            THEN /\ dev.curDelay[c][l] = arg.tap.v
                 /\ dev.tap[c][l] = arg.tap.v % TapRange
            ELSE /\ dev.curDelay[c][l] = out.v.pre.curDelay[c][l]
                 /\ dev.tap[c][l] = out.v.pre.tap[c][l]

\* every lane on tap 9, then delay(31, [0, 2], [3, 1]): the four pairs on
\* tap 31, their neighbours still on tap 9
C38_Witness ==
    /\ fn = "delay" /\ ~IsNone(out) /\ ~out.v.exc
    /\ arg = [tap |-> PyInt(31), chipSel |-> PyList(<<0, 2>>), laneSel |-> PyList(<<3, 1>>)]
    /\ \A c \in {0, 2} : \A l \in {1, 3} : dev.tap[c][l] = 31 /\ dev.curDelay[c][l] = 31
    /\ \A c \in {0, 2} : \A l \in {0, 2} : dev.tap[c][l] = 9 /\ dev.curDelay[c][l] = 9
    /\ \A l \in Lanes : dev.tap[1][l] = 9 /\ dev.tap[3][l] = 9

====
